---- MODULE Spec2Model ----
(***************************************************************************)
(* Model of the sightline realtime session bridge: one websocket channel   *)
(* (server.ts), the payload parser (parse-client-message.ts) and the       *)
(* LiveSessionBridge (live-session-bridge.ts) that owns the external       *)
(* streaming sessions opened for that channel.                             *)
(*                                                                         *)
(* The external session provider is the environment.  A session it hands   *)
(* out goes through                                                        *)
(*   "none" -> "connecting" -> "open" -> "closing" -> "closed"             *)
(*                        \-> "failed"       \------> "closed"             *)
(* "connecting": ai.live.connect() was called and is being awaited;        *)
(* "closing": session.close() was called, the close callback is still to   *)
(* come; "closed": the close callback was delivered.                       *)
(***************************************************************************)
EXTENDS Integers, Sequences, FiniteSets, TLC

\* ------------------------------------------------------------- bounds
MaxMsgs == 3        \* payloads received on the channel
MaxSessions == 2    \* external sessions the bridge may ask for
MaxEvents == 1      \* upstream message / error callbacks delivered
MaxChunks == 2      \* chunks accepted by enqueueChunk
MaxStops == 1       \* client handlers run that call stop()
MaxTime == 1        \* reading of an output context's clock, in units of 10 ms
MaxCells == 1       \* cells of a scene signature
MaxLevel == 2       \* brightest gray level the camera shows
MaxElapses == 2     \* stretches of time that pass in the browser
MaxRequests == 1    \* clicks on 'analyze latest frame'
MaxEntries == 6     \* entries of the transcript

VARIABLES
    apiKey,      \* LiveSessionBridge.apiKey ("" when GEMINI_API_KEY is unset)
    session,     \* LiveSessionBridge.session: NoSession or a session id
    live,        \* state of every external session, by id
    socket,      \* readyState of the channel's websocket
    log,         \* the channel's session-level trace, in order (see Traced)
    request,     \* the session-control request received last, "" if none
    unhandled,   \* a rejection escaped the socket's message handler
    nmsg,        \* payloads received so far
    nev,         \* upstream message / error callbacks delivered so far
    last         \* the step taken last: its handler, what it started from, the
                 \* shape of its input and all it did

serverVars == <<apiKey, session, live, socket, log, request, unhandled, nmsg, nev, last>>

\* The browser client: App, useLiveConnection, useAgentAudioPlayback.
VARIABLES
    conn,        \* useLiveConnection: wsRef (by the socket's readyState),
                 \* hasActiveSessionRef, connectionState
    app,         \* App: its state hooks and timestamp refs
    entries,     \* App.entries: the transcript, in order
    player,      \* the refs of useAgentAudioPlayback, the output contexts it
                 \* created, its suspended drain passes and what it scheduled
    gate,        \* useCameraStream: the running effect's timer and retained
                 \* scene signature, the frame emitted last and the last tick
    observe,     \* the auto-observe effect of App: whether its interval is
                 \* set, and a record of its last tick and of the turns sent
    said,        \* the last change of the transcript: the log and the user
                 \* partial before it, and the entry given to appendEntry
    now,         \* Date.now() in the browser, ms
    heard        \* the client handler that ran last, what it started from
                 \* and what it wrote to the socket

clientVars == <<conn, app, entries, player, gate, observe, said, now, heard>>

vars == <<serverVars, clientVars>>

NoSession == 0
SessionIds == 1..MaxSessions

\* contextRef.current when it is null.
NoContext == 0
ContextIds == 1..MaxChunks

\* useAgentAudioPlayback after the first render: no context, nothing queued,
\* no pass running, cursor 0.  enqueued, scheduled, stops and afterStop record
\* what happened so far: chunks accepted, sources started (in order), calls
\* of stop(), and whether no chunk was accepted since the last stop().
PlayerNew ==
    [contextRef |-> NoContext,
     contexts |-> [c \in ContextIds |-> [state |-> "none", currentTime |-> 0, stops |-> 0]],
     queueRef |-> <<>>, processingRef |-> FALSE, nextPlayTimeRef |-> 0,
     passes |-> <<>>, enqueued |-> 0, scheduled |-> <<>>, stops |-> 0,
     afterStop |-> FALSE]

\* useLiveConnection after the first render; fx: what a handler wrote to
\* the socket.
\* detached: sockets closed by stopSession whose onclose has not fired;
\* orphan: the state of a socket that lost wsRef to the onclose of another;
\* stoppedAt: the length of the transcript when 'stop session' was clicked
\* while connected, -1 if it was not or a session was started since.
ConnNew ==
    [wsRef |-> "null", hasActiveSessionRef |-> FALSE, connectionState |-> "disconnected",
     fx |-> <<>>, detached |-> 0, orphan |-> "none", stoppedAt |-> -1,
     wired |-> FALSE, up |-> <<>>, down |-> <<>>, again |-> "no", marks |-> <<>>]

\* App after the first render; timeouts: the sendActivityEnd timeouts set by
\* onInterrupt that have not fired yet.
AppNew ==
    [micEnabled |-> FALSE, cameraEnabled |-> FALSE, visionAutoFeedbackEnabled |-> TRUE,
     waitingForInput |-> FALSE, lastFrameCaptureAtRef |-> 0,
     lastVisionFeedbackRequestAtRef |-> 0, lastUserActivityAtRef |-> 0,
     timeouts |-> 0, userPartialRef |-> <<>>, agentPartial |-> <<>>]

\* No change of the transcript recorded.
SaidNew ==
    [previous |-> <<>>, partial |-> <<>>, acc |-> <<>>, role |-> "", text |-> <<>>,
     fresh |-> <<>>]

\* lastSceneSample when it is null, and onFrame not called yet.
NoSample == <<>>

\* useCameraStream with its effect not running.  emitted: the signature of
\* the frame passed to onFrame last; tick: what the last tick sampled, what
\* was retained and what had been emitted last when it started, and whether
\* it called onFrame.
GateNew ==
    [enabled |-> FALSE, timerId |-> FALSE, lastSceneSample |-> NoSample,
     emitted |-> NoSample,
     tick |-> [sample |-> NoSample, retained |-> NoSample, before |-> NoSample,
               onFrame |-> FALSE]]

\* The auto-observe effect before it ran.  tick: the readings the last tick
\* of the interval started from and whether a text turn was written to the
\* socket; autoSentAt: when the last auto-observation turn of the session
\* was written (0: none); elapses, requests: time steps and manual requests
\* so far.
ObserveNew ==
    [intervalId |-> FALSE,
     tick |-> [now |-> 0, lastUserActivityAt |-> 0, lastVisionFeedbackRequestAt |-> 0,
               lastFrameCaptureAt |-> 0, enabled |-> FALSE, connectionState |-> "disconnected",
               cameraEnabled |-> FALSE, waitingForInput |-> FALSE, sent |-> FALSE,
               previousAt |-> 0],
     autoSentAt |-> 0, actedAt |-> 0, elapses |-> 0, requests |-> 0]

\* Date.now() when the page is loaded: any reading far from 0.
Epoch == 100000

\* interrupting: an 'interrupt now' click made while the agent's audio was
\* playing has not been answered yet by live.interrupted or the end of the
\* session; late: the chunks accepted meanwhile, by id; busy: audio was
\* playing or queued when the handler started.
Heard(op, sent, flag, late, busy) ==
    [op |-> op, sent |-> sent, interrupting |-> flag, late |-> late, busy |-> busy]

ClientNew ==
    /\ conn = ConnNew
    /\ app = AppNew
    /\ entries = <<>>
    /\ player = PlayerNew
    /\ gate = GateNew
    /\ observe = ObserveNew
    /\ said = SaidNew
    /\ now = Epoch
    /\ heard = Heard("render", <<>>, FALSE, {}, FALSE)

\* ------------------------------------------------------------- log entries
\* k: "in" payload received, "out" message written to the socket, "drop"
\* message given to sendWsMessage while the socket is not open, "call" call
\* on an external session, "callx" such a call that threw, "cb" callback of
\* an external session, "sock" event of the websocket.
\* t: the tag / method / callback, s: the external session concerned,
\* a: the argument that matters (reason, message, kind of input).
Entry(k, t, s, a) == [k |-> k, t |-> t, s |-> s, a |-> a]

ServerSocketMessage(t, s, a) == Entry("out", t, s, a)

IsEmit(e) == e.k \in {"out", "drop"}

IsCall(e) == e.k \in {"call", "callx"}

\* What the trace keeps of a step, without the arguments: the session.connect
\* requests received, the session-control messages written to the socket, and
\* the calls that close an external session.  Everything a step did, in full,
\* is in last.fx.
Traced(e) ==
    \/ e.k = "out" /\ e.t \in {"server.ready", "session.connected", "session.closed"}
    \/ e.k = "in" /\ e.t = "session.connect"
    \/ e.k = "call" /\ e.t = "close"

Trace(e) == [e EXCEPT !.a = ""]

Count(seq, P(_)) == Cardinality({i \in 1..Len(seq) : P(seq[i])})

\* ------------------------------------------------------------- payloads
ClientTags ==
    {"session.connect", "session.disconnect", "text.turn", "audio.chunk",
     "audio.end", "video.frame", "activity.start", "activity.end", "ping"}

DataTags ==
    {"text.turn", "audio.chunk", "audio.end", "video.frame",
     "activity.start", "activity.end"}

\* A raw payload, by what the parser can tell about it: whether JSON.parse
\* accepts it, whether the value is a non-null object, and for each property
\* the parser reads what kind of value it holds.
Raw(json, obj, typeKind, type, si, text, data, mimeType, tc) ==
    [json |-> json, obj |-> obj, typeKind |-> typeKind, type |-> type,
     systemInstruction |-> si, text |-> text, data |-> data,
     mimeType |-> mimeType, turnComplete |-> tc]

Plain(type) == Raw(TRUE, TRUE, "str", type, "absent", "absent", "absent", "absent", "absent")

\* (data, mimeType) and (text, turnComplete) of the media and text payloads:
\* well-formed ones and ones with one property missing or of the wrong kind.
MediaFields == {<<"str", "str">>, <<"absent", "str">>, <<"str", "absent">>,
                <<"num", "str">>, <<"str", "num">>}

TextFields == {<<"str", "absent">>, <<"str", "false">>, <<"str", "num">>,
               <<"absent", "absent">>, <<"num", "true">>}

Payloads ==
    {Raw(FALSE, FALSE, "absent", "", "absent", "absent", "absent", "absent", "absent"),
     Raw(TRUE, FALSE, "absent", "", "absent", "absent", "absent", "absent", "absent"),
     Raw(TRUE, TRUE, "absent", "", "absent", "absent", "absent", "absent", "absent"),
     Raw(TRUE, TRUE, "num", "", "absent", "absent", "absent", "absent", "absent"),
     Plain("session.resume")}
    \cup {Plain(t) : t \in ClientTags \ {"session.connect", "text.turn", "audio.chunk", "video.frame"}}
    \cup {[Plain("session.connect") EXCEPT !.systemInstruction = k] :
            k \in {"absent", "str", "blank", "num"}}
    \cup {[Plain("text.turn") EXCEPT !.text = f[1], !.turnComplete = f[2]] :
            f \in TextFields}
    \cup {[Plain(t) EXCEPT !.data = f[1], !.mimeType = f[2]] :
            t \in {"audio.chunk", "video.frame"}, f \in MediaFields}

isString(value) == value \in {"str", "blank"}

\* (mutant) only the payload's data is checked.
validMediaDataOnly(raw) == isString(raw.data)

\* The check on the two properties of audio.chunk and video.frame.
validMedia(raw) == isString(raw.data) /\ isString(raw.mimeType)

null == [type |-> "null"]

ClientSocketMessage(type, si, tc) ==
    [type |-> type, systemInstruction |-> si, turnComplete |-> tc]

parseClientMessage(raw) ==
    IF ~raw.json THEN null
    ELSE IF ~raw.obj \/ raw.typeKind # "str" THEN null
    ELSE IF raw.type = "session.connect" THEN
        IF raw.systemInstruction # "absent" /\ ~isString(raw.systemInstruction)
        THEN null
        ELSE ClientSocketMessage("session.connect", raw.systemInstruction, "absent")
    ELSE IF raw.type = "session.disconnect" THEN
        ClientSocketMessage("session.disconnect", "absent", "absent")
    ELSE IF raw.type = "text.turn" THEN
        IF ~isString(raw.text) THEN null
        ELSE ClientSocketMessage("text.turn", "absent",
                IF raw.turnComplete \in {"true", "false"} THEN raw.turnComplete ELSE "true")
    ELSE IF raw.type = "audio.chunk" THEN
        IF ~validMedia(raw) THEN null
        ELSE ClientSocketMessage("audio.chunk", "absent", "absent")
    ELSE IF raw.type = "audio.end" THEN
        ClientSocketMessage("audio.end", "absent", "absent")
    ELSE IF raw.type = "video.frame" THEN
        IF ~validMedia(raw) THEN null
        ELSE ClientSocketMessage("video.frame", "absent", "absent")
    ELSE IF raw.type = "activity.start" THEN
        ClientSocketMessage("activity.start", "absent", "absent")
    ELSE IF raw.type = "activity.end" THEN
        ClientSocketMessage("activity.end", "absent", "absent")
    ELSE IF raw.type = "ping" THEN
        ClientSocketMessage("ping", "absent", "absent")
    ELSE null

\* ------------------------------------------------------------- the bridge
\* The mutable state a handler works on.
Bridge ==
    [session |-> session, live |-> live, socket |-> socket, log |-> log,
     unhandled |-> unhandled, fx |-> <<>>]

Commit(b) ==
    /\ session' = b.session
    /\ live' = b.live
    /\ socket' = b.socket
    /\ log' = b.log
    /\ unhandled' = b.unhandled
    /\ UNCHANGED apiKey

Logged(b, e) ==
    [b EXCEPT !.fx = Append(@, e),
              !.log = IF Traced(e) THEN Append(@, Trace(e)) ELSE @]

\* server.ts sendWsMessage: written only while the socket is open.
sendWsMessage(b, message) ==
    Logged(b, [message EXCEPT !.k = IF b.socket = "open" THEN "out" ELSE "drop"])


\* Session.close() of the provider.
close(b, s) ==
    [Logged(b, Entry("call", "close", s, "")) EXCEPT
        !.live[s] = IF b.live[s] = "open" THEN "closing" ELSE b.live[s]]

\* (mutant) the handle is not cleared.
disconnectKeepsHandle(b, reason) ==
    IF b.session = NoSession THEN b
    ELSE sendWsMessage(close(b, b.session),
                       ServerSocketMessage("session.closed", b.session, reason))

disconnect(b, reason) ==
    IF b.session = NoSession THEN b
    ELSE sendWsMessage([close(b, b.session) EXCEPT !.session = NoSession],
                       ServerSocketMessage("session.closed", b.session, reason))

FreeIds(b) == {i \in SessionIds : b.live[i] = "none"}

NewId(b) == CHOOSE i \in FreeIds(b) : \A j \in FreeIds(b) : i <= j

\* (mutant) the credential is never found missing.
missingApiKeyNever == FALSE

\* !this.apiKey
missingApiKey == apiKey = ""

\* connect() up to the point where it awaits ai.live.connect().
connect(b, message) ==
    IF missingApiKey THEN
        sendWsMessage(b, ServerSocketMessage("live.error", NoSession,
                                             "GEMINI_API_KEY is missing in server environment."))
    ELSE
        LET b1 == IF b.session # NoSession THEN disconnect(b, "Reconnecting session.") ELSE b
            id == NewId(b1)
        IN  [Logged(b1, Entry("call", "connect", id,
                    IF message.systemInstruction = "str" THEN "systemInstruction" ELSE ""))
                EXCEPT !.live[id] = "connecting"]

\* The call one data message turns into.
Method(type) == IF type = "text.turn" THEN "sendClientContent" ELSE "sendRealtimeInput"

Argument(message) ==
    CASE message.type = "text.turn" ->
            IF message.turnComplete = "false" THEN "turn" ELSE "turnComplete"
      [] message.type = "audio.chunk" -> "audio"
      [] message.type = "audio.end" -> "audioStreamEnd"
      [] message.type = "video.frame" -> "video"
      [] message.type = "activity.start" -> "activityStart"
      [] OTHER -> "activityEnd"

\* (mutant) the guard in front of the data messages never fires.
noSessionNever(b) == FALSE

\* !this.session, the guard in front of the data messages.
noSession(b) == b.session = NoSession

\* The try block of handleClientMessage; thrown: it ended in an exception.
tryBlock(b, message, throws) ==
    IF message.type = "session.connect" THEN
        [b |-> connect(b, message), thrown |-> FALSE]
    ELSE IF message.type = "session.disconnect" THEN
        [b |-> disconnect(b, "Disconnected by client request."), thrown |-> FALSE]
    ELSE IF message.type = "ping" THEN
        [b |-> sendWsMessage(b, ServerSocketMessage("pong", NoSession, "")), thrown |-> FALSE]
    ELSE IF noSession(b) THEN
        [b |-> sendWsMessage(b, ServerSocketMessage("live.error", NoSession,
                                "No active Live session. Click connect first.")),
         thrown |-> FALSE]
    ELSE
        [b |-> Logged(b, Entry(IF throws THEN "callx" ELSE "call",
                               Method(message.type), b.session, Argument(message))),
         thrown |-> throws]

\* (mutant) the exception leaves handleClientMessage and rejects the promise
\* the socket's message handler awaits.
catchBlockRethrows(b) == [b EXCEPT !.unhandled = TRUE]

\* The catch block of handleClientMessage.
catchBlock(b) ==
    sendWsMessage(b, ServerSocketMessage("live.error", NoSession, "error.message"))

handleClientMessage(b, message, throws) ==
    LET r == tryBlock(b, message, throws)
    IN  IF r.thrown THEN catchBlock(r.b) ELSE r.b

\* ------------------------------------------------------------- upstream events
\* One LiveServerMessage, by what handleServerMessage reads of it.
LiveServerMessage(setup, parts, inTx, inFin, outTx, text, interrupted, turnComplete, waiting) ==
    [setupComplete |-> setup, parts |-> parts, inputTranscription |-> inTx,
     finished |-> inFin, outputTranscription |-> outTx, text |-> text,
     interrupted |-> interrupted, turnComplete |-> turnComplete,
     waitingForInput |-> waiting]

ServerEvents ==
    {LiveServerMessage(TRUE, <<>>, "absent", FALSE, "absent", "absent", FALSE, FALSE, "absent"),
     LiveServerMessage(FALSE, <<"audio/pcm">>, "absent", FALSE, "text", "absent", FALSE, TRUE, "absent")}

NonBlank(text) == text \notin {"absent", "", "blank"}

RECURSIVE audioParts(_, _)
audioParts(parts, s) ==
    IF parts = <<>> THEN <<>>
    ELSE (IF Head(parts) \in {"audio/pcm", "Audio/L16"}
          THEN <<ServerSocketMessage("agent.audio.chunk", s, Head(parts))>>
          ELSE <<>>) \o audioParts(Tail(parts), s)

\* (mutant) live.waiting-input is sent only for a flag that is true.
fanOutWhenWaiting(message, s) ==
    (IF message.setupComplete
     THEN <<ServerSocketMessage("session.connected", s, "")>> ELSE <<>>)
    \o audioParts(message.parts, s)
    \o (IF message.inputTranscription \notin {"absent", ""}
        THEN <<ServerSocketMessage("user.transcript", s,
                    IF message.finished THEN "finished" ELSE "partial")>>
        ELSE <<>>)
    \o (IF NonBlank(message.outputTranscription)
        THEN <<ServerSocketMessage("agent.text.delta", s, "outputTranscription")>>
        ELSE IF NonBlank(message.text)
        THEN <<ServerSocketMessage("agent.text.delta", s, "text")>>
        ELSE <<>>)
    \o (IF message.interrupted
        THEN <<ServerSocketMessage("live.interrupted", s, "")>> ELSE <<>>)
    \o (IF message.turnComplete
        THEN <<ServerSocketMessage("agent.turn.complete", s, "")>> ELSE <<>>)
    \o (IF message.waitingForInput = "true"
        THEN <<ServerSocketMessage("live.waiting-input", s, message.waitingForInput)>>
        ELSE <<>>)

\* What handleServerMessage sends for one message of session s, in order.
fanOut(message, s) ==
    (IF message.setupComplete
     THEN <<ServerSocketMessage("session.connected", s, "")>> ELSE <<>>)
    \o audioParts(message.parts, s)
    \o (IF message.inputTranscription \notin {"absent", ""}
        THEN <<ServerSocketMessage("user.transcript", s,
                    IF message.finished THEN "finished" ELSE "partial")>>
        ELSE <<>>)
    \o (IF NonBlank(message.outputTranscription)
        THEN <<ServerSocketMessage("agent.text.delta", s, "outputTranscription")>>
        ELSE IF NonBlank(message.text)
        THEN <<ServerSocketMessage("agent.text.delta", s, "text")>>
        ELSE <<>>)
    \o (IF message.interrupted
        THEN <<ServerSocketMessage("live.interrupted", s, "")>> ELSE <<>>)
    \o (IF message.turnComplete
        THEN <<ServerSocketMessage("agent.turn.complete", s, "")>> ELSE <<>>)
    \o (IF message.waitingForInput \in {"true", "false"}
        THEN <<ServerSocketMessage("live.waiting-input", s, message.waitingForInput)>>
        ELSE <<>>)

RECURSIVE sendAll(_, _)
sendAll(b, messages) ==
    IF messages = <<>> THEN b
    ELSE sendAll(sendWsMessage(b, Head(messages)), Tail(messages))

handleServerMessage(b, message, s) == sendAll(b, fanOut(message, s))

\* (mutant) the error callback clears the handle as the close callback does.
onerrorClearsHandle(b, s, message) ==
    sendWsMessage([b EXCEPT !.session = NoSession],
                  ServerSocketMessage("live.error", s,
                    IF message = "" THEN "Gemini Live session error." ELSE message))

\* The onerror callback of a session.
onerror(b, s, message) ==
    sendWsMessage(b, ServerSocketMessage("live.error", s,
                    IF message = "" THEN "Gemini Live session error." ELSE message))

\* The onclose callback of a session.
onclose(b, s, reason) ==
    sendWsMessage([b EXCEPT !.session = NoSession],
                  ServerSocketMessage("session.closed", s,
                    IF reason = "" THEN "Live session closed." ELSE reason))

\* ------------------------------------------------------------- the channel
\* The shape of a raw payload, read off the payload itself: not JSON, JSON
\* without a string type, a tag outside the vocabulary, a tag of the
\* vocabulary without one of the string properties the tag requires, a
\* session.connect whose systemInstruction is not a string, or well-formed.
Shape(raw) ==
    IF ~raw.json THEN "not-json"
    ELSE IF ~raw.obj \/ raw.typeKind # "str" THEN "no-type"
    ELSE IF raw.type \notin ClientTags THEN "unknown-tag"
    ELSE IF \/ raw.type = "text.turn" /\ raw.text \notin {"str", "blank"}
            \/ raw.type \in {"audio.chunk", "video.frame"}
                /\ (raw.data \notin {"str", "blank"} \/ raw.mimeType \notin {"str", "blank"})
    THEN "missing-field"
    ELSE IF raw.type = "session.connect" /\ raw.systemInstruction \notin {"absent", "str", "blank"}
    THEN "bad-option"
    ELSE "well-formed"

Step(op, s, b, pre, shape) ==
    [op |-> op, s |-> s, fx |-> b.fx, shape |-> shape,
     pre |-> [session |-> pre.session, live |-> pre.live, socket |-> pre.socket]]

\* (mutant) nothing is sent when the channel opens.
onConnectionSilent(b) == b

\* wsServer.on('connection'): the bridge is built and server.ready is sent.
onConnection(b) ==
    sendWsMessage(b, ServerSocketMessage("server.ready", NoSession, "model"))

New ==
    [session |-> NoSession, live |-> [i \in SessionIds |-> "none"], socket |-> "open",
     log |-> <<>>, unhandled |-> FALSE, fx |-> <<>>]

\* The server after wsServer.on('connection') ran for one websocket.
ServerNew ==
    /\ apiKey \in {"", "key"}
    /\ session = onConnection(New).session
    /\ live = onConnection(New).live
    /\ socket = onConnection(New).socket
    /\ log = onConnection(New).log
    /\ unhandled = onConnection(New).unhandled
    /\ request = ""
    /\ nmsg = 0
    /\ nev = 0
    /\ last = Step("connection", NoSession, onConnection(New), New, "")

Init == ServerNew /\ ClientNew

\* socket.on('message'): one payload arrives and is handled up to the first
\* point where the handler suspends or returns.
onMessage(b, raw, throws) ==
    LET parsed == parseClientMessage(raw)
    IN  IF parsed = null
        THEN sendWsMessage(Logged(b, Entry("in", "invalid", NoSession, "")),
                           ServerSocketMessage("live.error", NoSession,
                                               "Invalid websocket message payload."))
        ELSE handleClientMessage(Logged(b, Entry("in", parsed.type, NoSession, "")),
                                 parsed, throws)

\* The activity markers among the provider calls of one step, and a close
\* the provider made on its own.
Marks(op, s, fx) ==
    LET calls == SelectSeq(fx, LAMBDA e : e.k = "call"
                                    /\ e.a \in {"activityStart", "activityEnd"})
    IN  (IF op = "close" /\ live[s] = "open" THEN <<[t |-> "close", s |-> s]>> ELSE <<>>)
        \o [i \in 1..Len(calls) |-> [t |-> calls[i].a, s |-> calls[i].s]]

\* The websocket between a wired client and the server: the message the
\* server handled leaves the channel up, what it wrote enters the channel
\* down.
Carried(op, s, b) ==
    [conn EXCEPT !.up = IF op = "message" THEN Tail(@) ELSE @,
                 !.down = @ \o SelectSeq(b.fx, LAMBDA e : e.k = "out"),
                 !.marks = @ \o Marks(op, s, b.fx)]

Do(op, s, b, shape) ==
    /\ Commit(b)
    /\ last' = Step(op, s, b, Bridge, shape)
    /\ IF conn.wired
       THEN /\ conn' = Carried(op, s, b)
            /\ UNCHANGED <<app, entries, player, gate, observe, said, now, heard>>
       ELSE UNCHANGED clientVars

Receive(raw, throws) ==
    /\ socket = "open"
    /\ ~unhandled
    /\ nmsg < MaxMsgs
    /\ (raw.type = "session.connect" /\ ~missingApiKey) => FreeIds(Bridge) # {}
    /\ throws => (session # NoSession /\ parseClientMessage(raw).type \in DataTags)
    /\ Do("message", NoSession, onMessage(Bridge, raw, throws), Shape(raw))
    /\ request' = IF parseClientMessage(raw).type \in {"session.connect", "session.disconnect"}
                   THEN parseClientMessage(raw).type ELSE request
    /\ nmsg' = nmsg + 1
    /\ UNCHANGED nev

\* ai.live.connect() resolves: connect() resumes and stores the session.
ConnectResolve(s) ==
    /\ live[s] = "connecting"
    /\ Do("resolve", s,
          [Logged(Bridge, Entry("cb", "resolve", s, "")) EXCEPT
                !.live[s] = "open", !.session = s], "")
    /\ UNCHANGED <<request, nmsg, nev>>

\* ai.live.connect() rejects: the exception reaches the catch block.
ConnectReject(s) ==
    /\ live[s] = "connecting"
    /\ Do("reject", s,
          catchBlock([Logged(Bridge, Entry("cb", "reject", s, "")) EXCEPT
                !.live[s] = "failed"]), "")
    /\ UNCHANGED <<request, nmsg, nev>>

\* The onmessage callback of session s.
ServerMessage(s, message) ==
    /\ live[s] \in {"open", "closing"}
    /\ nev < MaxEvents
    /\ Do("servermessage", s,
          handleServerMessage(Logged(Bridge, Entry("cb", "message", s, "")), message, s),
          message)
    /\ nev' = nev + 1
    /\ UNCHANGED <<request, nmsg>>

UpstreamError(s, message) ==
    /\ live[s] \in {"open", "closing"}
    /\ nev < MaxEvents
    /\ Do("error", s, onerror(Logged(Bridge, Entry("cb", "error", s, "")), s, message), "")
    /\ nev' = nev + 1
    /\ UNCHANGED <<request, nmsg>>

\* The websocket of session s closes, on the provider's side or after close().
UpstreamClose(s, reason) ==
    /\ live[s] \in {"open", "closing"}
    /\ Do("close", s,
          onclose([Logged(Bridge, Entry("cb", "close", s, "")) EXCEPT
                !.live[s] = "closed"], s, reason), "")
    /\ UNCHANGED <<request, nmsg, nev>>

\* socket.on('close').
SocketClose ==
    /\ socket = "open"
    /\ Do("socketclose", NoSession,
          disconnect([Logged(Bridge, Entry("sock", "close", NoSession, "")) EXCEPT
                !.socket = "closed"], "Socket closed."), "")
    /\ UNCHANGED <<request, nmsg, nev>>

Next ==
    \/ \E raw \in Payloads, throws \in BOOLEAN : Receive(raw, throws)
    \/ \E s \in SessionIds : ConnectResolve(s)
    \/ \E s \in SessionIds : ConnectReject(s)
    \/ \E s \in SessionIds, m \in ServerEvents : ServerMessage(s, m)
    \/ \E s \in SessionIds, m \in {"", "quota"} : UpstreamError(s, m)
    \/ \E s \in SessionIds, r \in {"", "quota"} : UpstreamClose(s, r)
    \/ SocketClose

Spec == Init /\ [][Next]_vars

\* ------------------------------------------------------------- properties
Emits(fx) == SelectSeq(fx, IsEmit)

Calls(fx) == SelectSeq(fx, IsCall)

Open == {s \in SessionIds : live[s] = "open"}

Connecting == {s \in SessionIds : live[s] = "connecting"}

\* The step taken last handled a message with one of the data tags.
DataMessageHandled ==
    /\ last.op = "message"
    /\ last.fx[1].k = "in"
    /\ last.fx[1].t \in DataTags

NoActiveSession ==
    Entry("out", "live.error", NoSession, "No active Live session. Click connect first.")

\* C1: at most one external session created by the bridge is open at any
\* time, and an open one is the session the bridge's handle holds.
C1_AtMostOneOpenSession ==
    /\ Cardinality(Open) <= 1
    /\ \A s \in Open : session = s

IsClosed(e) == e.k = "out" /\ e.t = "session.closed"

IsConnect(e) == e.k = "in" /\ e.t = "session.connect"

\* The reconnects in the trace: a session.connect request followed at once by
\* the close of the session held and by its session.closed.
Reconnects ==
    {i \in 1..(Len(log) - 2) :
        /\ IsConnect(log[i])
        /\ log[i+1].k = "call" /\ log[i+1].t = "close"
        /\ IsClosed(log[i+2]) /\ log[i+2].s = log[i+1].s}

\* The session a session.connect request in the trace asks for: sessions are
\* numbered in the order of the requests.
Asked(i) == Cardinality({j \in 1..i : IsConnect(log[j])})

\* C2: a session.connect handled while a session is open gives exactly one
\* session.closed for the old session, and no further session.closed lies
\* between it and the session.connected of the new session.
C2_ReconnectClosesOnce ==
    \A i \in Reconnects :
        /\ Cardinality({j \in 1..Len(log) : IsClosed(log[j]) /\ log[j].s = log[i+1].s}) = 1
        /\ \A j \in (i+3)..Len(log) :
             (log[j].k = "out" /\ log[j].t = "session.connected" /\ log[j].s = Asked(i))
             => \A c \in (i+3)..j : ~IsClosed(log[c])

\* C3: a data message handled while the handle is null gives exactly one
\* live.error, no call on any external session, and leaves the handle null.
C3_DataWithoutSession ==
    (DataMessageHandled /\ last.pre.session = NoSession)
    => /\ Len(Emits(last.fx)) = 1
       /\ Emits(last.fx)[1].t = "live.error"
       /\ Calls(last.fx) = <<>>
       /\ live = last.pre.live
       /\ session = NoSession

C3_Witness ==
    /\ last.op = "message"
    /\ last.fx = <<Entry("in", "video.frame", NoSession, ""), NoActiveSession>>
    /\ last.pre.session = NoSession
    /\ session = NoSession

\* C4: a data message handled while a connect is in flight is rejected with
\* the no-active-session error and is not forwarded to any external session.
C4_DataDuringConnectRejected ==
    (DataMessageHandled /\ \E s \in SessionIds : last.pre.live[s] = "connecting")
    => /\ Emits(last.fx) = <<NoActiveSession>>
       /\ Calls(last.fx) = <<>>

\* No session.connect has been received since the channel closed or since the
\* last session.disconnect.
Released == socket = "closed" \/ request = "session.disconnect"

\* Nothing is pending: no connect is awaited and every close() was answered.
Settled == \A s \in SessionIds : live[s] \notin {"connecting", "closing"}

\* C5: after a session.disconnect or the close of the channel, with no
\* session.connect since, no external session stays open once everything
\* pending has finished.
C5_NothingLeftOpen == (Released /\ Settled) => Open = {}

\* The step taken last made an external call that failed: a send that threw,
\* or a connect whose handshake was rejected.
CallFailed ==
    \E i \in 1..Len(last.fx) :
        \/ last.fx[i].k = "callx"
        \/ last.fx[i].k = "cb" /\ last.fx[i].t = "reject"

\* C6: a failed external call never leaves handleClientMessage: the bridge
\* emits one live.error, the handler ends normally, the channel stays as it is.
C6_FailureContained ==
    /\ ~unhandled
    /\ CallFailed
        => /\ Len(Emits(last.fx)) = 1
           /\ Emits(last.fx)[1].t = "live.error"
           /\ Emits(last.fx)[1].a = "error.message"
           /\ socket = last.pre.socket

C6_Witness ==
    /\ last.op = "message"
    /\ \E i \in 1..Len(last.fx) : last.fx[i].k = "callx"
    /\ Emits(last.fx)[1].k = "out"
    /\ socket = "open"

Reasons == {"Disconnected by client request.", "Socket closed.", "Reconnecting session."}

SessionClosed(b, s, reason) ==
    Entry(IF b.socket = "open" THEN "out" ELSE "drop", "session.closed", s, reason)

\* C7: disconnect with no session does nothing; with a session it closes it,
\* clears the handle and emits one session.closed with the reason given; a
\* second disconnect changes nothing more.  The session.disconnect steps taken
\* show the same.
C7_DisconnectIdempotent ==
    /\ \A r \in Reasons :
        LET b == Bridge
            once == disconnect(b, r)
            twice == disconnect(once, r)
        IN  /\ b.session = NoSession => once = b
            /\ b.session # NoSession =>
                /\ once.session = NoSession
                /\ once.live = [b.live EXCEPT ![b.session] = "closing"]
                /\ once.fx = <<Entry("call", "close", b.session, ""),
                               SessionClosed(b, b.session, r)>>
            /\ twice = once
    /\ (last.op = "message" /\ last.fx[1] = Entry("in", "session.disconnect", NoSession, ""))
        => /\ session = NoSession
           /\ IF last.pre.session = NoSession
              THEN Len(last.fx) = 1 /\ live = last.pre.live
              ELSE Tail(last.fx) =
                      <<Entry("call", "close", last.pre.session, ""),
                        Entry("out", "session.closed", last.pre.session,
                              "Disconnected by client request.")>>

C7_Witness ==
    /\ last.op = "message"
    /\ last.pre.session # NoSession
    /\ last.fx = <<Entry("in", "session.disconnect", NoSession, ""),
                   Entry("call", "close", last.pre.session, ""),
                   Entry("out", "session.closed", last.pre.session,
                         "Disconnected by client request.")>>
    /\ session = NoSession

ConnectHandled ==
    /\ last.op = "message"
    /\ last.fx[1].k = "in"
    /\ last.fx[1].t = "session.connect"

\* C8: without a credential, session.connect gives exactly one live.error and
\* nothing else: no session is asked for, none is closed, the handle stays.
C8_ConnectWithoutCredential ==
    (ConnectHandled /\ apiKey = "")
    => /\ Tail(last.fx) = <<Entry("out", "live.error", NoSession,
                                  "GEMINI_API_KEY is missing in server environment.")>>
       /\ session = last.pre.session
       /\ live = last.pre.live
       /\ ~unhandled

C8_Witness ==
    /\ ConnectHandled
    /\ apiKey = ""
    /\ Len(Emits(last.fx)) = 1
    /\ Emits(last.fx)[1].t = "live.error"

\* C9: a payload that is not JSON, has no string type, has an unknown tag or
\* lacks a required string property gives exactly one live.error at the
\* channel boundary; the bridge is not called, its session state does not
\* change, the channel stays open.
C9_MalformedPayloadRejected ==
    (last.op = "message"
        /\ last.shape \in {"not-json", "no-type", "unknown-tag", "missing-field"})
    => /\ last.fx = <<Entry("in", "invalid", NoSession, ""),
                      Entry("out", "live.error", NoSession,
                            "Invalid websocket message payload.")>>
       /\ session = last.pre.session
       /\ live = last.pre.live
       /\ socket = "open"
       /\ ~unhandled

C9_Witness ==
    /\ last.op = "message"
    /\ last.shape = "missing-field"
    /\ session # NoSession
    /\ Len(Emits(last.fx)) = 1
    /\ Emits(last.fx)[1].t = "live.error"

IsConnected(e) == e.k = "out" /\ e.t = "session.connected"

\* C10: server.ready is the first message written to the channel, and every
\* session.connected comes after it and after a session.connect request.
C10_ReadyFirst ==
    /\ log # <<>>
    /\ log[1] = Entry("out", "server.ready", NoSession, "")
    /\ last.op = "connection"
        => /\ Emits(last.fx) # <<>>
           /\ Emits(last.fx)[1].k = "out"
           /\ Emits(last.fx)[1].t = "server.ready"
    /\ \A i \in 1..Len(log) :
        IsConnected(log[i]) => i > 1 /\ \E j \in 1..(i-1) : IsConnect(log[j])

C10_Witness == \E i \in 1..Len(log) : IsConnected(log[i])

\* The step taken last handled a well-formed audio.chunk or video.frame.
MediaMessageHandled ==
    /\ last.op = "message"
    /\ last.shape = "well-formed"
    /\ last.fx[1].k = "in"
    /\ last.fx[1].t \in {"audio.chunk", "video.frame"}

\* C11: an audio.chunk / video.frame handled while an external session is
\* open gives exactly one sendRealtimeInput call, made on an open session
\* within the handling of that message (so calls follow the arrival order of
\* the messages), carrying the medium of the message, and no outbound message
\* (but for the live.error that answers a call that failed, see C6).
C11_MediaForwardedInOrder ==
    (MediaMessageHandled /\ \E s \in SessionIds : last.pre.live[s] = "open")
    => /\ Len(last.fx) >= 2
       /\ Len(Calls(last.fx)) = 1
       /\ IsCall(last.fx[2])
       /\ last.fx[2].t = "sendRealtimeInput"
       /\ last.pre.live[last.fx[2].s] = "open"
       /\ last.fx[2].a = (IF last.fx[1].t = "audio.chunk" THEN "audio" ELSE "video")
       /\ (Emits(last.fx) = <<>> \/ last.fx[2].k = "callx")

\* ------------------------------------------------------------- audio playback
\* scheduleBuffer's lookahead, 0.01 s, in units of 10 ms.
Lookahead == 1

Max(a, b) == IF a >= b THEN a ELSE b

\* The data of an agent.audio.chunk: empty, not base64, or PCM of one or two
\* units of sound; and its mimeType.
AudioData == {"", "!", "AAAA", "AAAAAAAA"}

MimeTypes == {"", "audio/pcm;rate=24000", "audio/wav"}

\* buffer.duration of the buffer made from a chunk.
Duration(data) == IF data = "AAAA" THEN 1 ELSE 2

\* mimeType.toLowerCase().startsWith('audio/pcm')
isPcm(mimeType) == mimeType \in {"audio/pcm;rate=24000", "Audio/PCM"}

stop(p) ==
    [p EXCEPT !.queueRef = <<>>,
              !.nextPlayTimeRef = 0,
              !.contextRef = NoContext,
              !.contexts = IF p.contextRef = NoContext THEN @
                           ELSE [@ EXCEPT ![p.contextRef].state = "closed"],
              !.stops = @ + 1,
              !.afterStop = TRUE]

NewContext(p) ==
    CHOOSE c \in ContextIds :
        /\ p.contexts[c].state = "none"
        /\ \A d \in ContextIds : p.contexts[d].state = "none" => c <= d

\* ensureContext up to its await: the context is created if there is none;
\* state is the state the browser creates it in.
ensureContext(p, state) ==
    IF p.contextRef # NoContext THEN p
    ELSE [p EXCEPT !.contextRef = NewContext(p),
                   !.contexts[NewContext(p)] =
                        [state |-> state, currentTime |-> 0, stops |-> p.stops]]

\* (mutant) the source starts at the lookahead whatever the cursor says.
scheduleBufferAtLookahead(p, context, chunk) ==
    LET startAt == p.contexts[context].currentTime + Lookahead
    IN  [p EXCEPT !.nextPlayTimeRef = startAt + Duration(chunk.data),
                  !.scheduled = Append(@,
                       [id |-> chunk.id, context |-> context, startAt |-> startAt,
                        duration |-> Duration(chunk.data),
                        cursor |-> p.nextPlayTimeRef,
                        currentTime |-> p.contexts[context].currentTime,
                        first |-> chunk.first, stops |-> chunk.stops, at |-> p.stops])]

scheduleBuffer(p, context, chunk) ==
    LET startAt == Max(p.contexts[context].currentTime + Lookahead, p.nextPlayTimeRef)
    IN  [p EXCEPT !.nextPlayTimeRef = startAt + Duration(chunk.data),
                  !.scheduled = Append(@,
                       [id |-> chunk.id, context |-> context, startAt |-> startAt,
                        duration |-> Duration(chunk.data),
                        cursor |-> p.nextPlayTimeRef,
                        currentTime |-> p.contexts[context].currentTime,
                        first |-> chunk.first, stops |-> chunk.stops, at |-> p.stops])]

\* (mutant) the catch block is missing: only the finally block runs.
processQueueFinallyOnly(p) == [p EXCEPT !.processingRef = FALSE]

\* (mutant) the finally block is missing: the flag stays set after a failure.
processQueueCatchOnly(p) == stop(p)

\* The catch and finally blocks of processQueue.
processQueueCatch(p) == [stop(p) EXCEPT !.processingRef = FALSE]

Suspended(p, at, chunk, context) ==
    [p EXCEPT !.passes = Append(@, [at |-> at, chunk |-> chunk, context |-> context])]

RECURSIVE processQueue(_, _)
\* A drain pass from createBufferFromChunk on, for the chunk it holds and the
\* context ensureContext returned, up to the point where it next suspends
\* (decodeAudioData, or a later chunk's resume) or ends.
createBufferFromChunk(p, chunk, context, state) ==
    IF chunk.data = "!" THEN processQueueCatch(p)
    ELSE IF isPcm(chunk.mimeType)
    THEN processQueue(scheduleBuffer(p, context, chunk), state)
    ELSE Suspended(p, "decode", chunk, context)

\* The while loop of processQueue, from its test on.
processQueue(p, state) ==
    IF p.queueRef = <<>> THEN [p EXCEPT !.processingRef = FALSE]
    ELSE LET chunk == Head(p.queueRef)
             q == ensureContext([p EXCEPT !.queueRef = Tail(@)], state)
         IN  IF q.contexts[q.contextRef].state = "suspended"
             THEN Suspended(q, "resume", chunk, q.contextRef)
             ELSE createBufferFromChunk(q, chunk, q.contextRef, state)

\* (mutant) every call starts a drain pass, whether or not one is running.
enqueueChunkAlwaysDrains(p, data, mimeType, state) ==
    IF data = "" \/ mimeType = "" THEN p
    ELSE LET chunk == [id |-> p.enqueued + 1, data |-> data, mimeType |-> mimeType,
                       first |-> p.afterStop, stops |-> p.stops]
             q == [p EXCEPT !.queueRef = Append(@, chunk), !.enqueued = @ + 1,
                            !.afterStop = FALSE]
         IN  processQueue([q EXCEPT !.processingRef = TRUE], state)

enqueueChunk(p, data, mimeType, state) ==
    IF data = "" \/ mimeType = "" THEN p
    ELSE LET chunk == [id |-> p.enqueued + 1, data |-> data, mimeType |-> mimeType,
                       first |-> p.afterStop, stops |-> p.stops]
             q == [p EXCEPT !.queueRef = Append(@, chunk), !.enqueued = @ + 1,
                            !.afterStop = FALSE]
         IN  IF q.processingRef THEN q
             ELSE processQueue([q EXCEPT !.processingRef = TRUE], state)

\* ------------------------------------------------------------- the transcript
\* A text is a sequence of tokens; "_" is one whitespace character, any other
\* token a run of characters without whitespace at its ends.
RECURSIVE squeeze(_)
squeeze(text) ==
    IF text = <<>> THEN <<>>
    ELSE IF Head(text) = "_" /\ (Tail(text) = <<>> \/ Head(Tail(text)) = "_")
    THEN squeeze(Tail(text))
    ELSE <<Head(text)>> \o squeeze(Tail(text))

\* value.replace(/\s+/g, ' ').trim()
normalizeTranscriptText(value) ==
    LET t == squeeze(value)
    IN  IF t # <<>> /\ Head(t) = "_" THEN Tail(t) ELSE t

\* (mutant) the last entry is compared with the text as given.
appendEntryAsGiven(es, role, text) ==
    LET next == normalizeTranscriptText(text)
    IN  IF next = <<>> THEN es
        ELSE IF es # <<>> /\ es[Len(es)].role = role /\ es[Len(es)].text = text
        THEN es
        ELSE Append(es, [role |-> role, text |-> next])

\* (mutant) an agent entry is compared with the last entry only.
appendEntryLastOnly(es, role, text) ==
    LET next == normalizeTranscriptText(text)
    IN  IF next = <<>> THEN es
        ELSE IF es # <<>> /\ es[Len(es)].role = role
                /\ normalizeTranscriptText(es[Len(es)].text) = next
        THEN es
        ELSE Append(es, [role |-> role, text |-> next])

appendEntry(es, role, text) ==
    LET next == normalizeTranscriptText(text)
        recent == {i \in 1..Len(es) : i > Len(es) - 4 /\ es[i].role = "agent"}
    IN  IF next = <<>> THEN es
        ELSE IF es # <<>> /\ es[Len(es)].role = role
                /\ normalizeTranscriptText(es[Len(es)].text) = next
        THEN es
        ELSE IF role = "agent"
                /\ \E i \in recent : normalizeTranscriptText(es[i].text) = next
        THEN es
        ELSE Append(es, [role |-> role, text |-> next])

\* ------------------------------------------------------------- the client's socket
\* sendMessage: written only while the socket referenced is open.
sendMessage(c, message) ==
    IF c.wsRef = "open" THEN [c EXCEPT !.fx = Append(@, message)] ELSE c

openSocket(c) ==
    IF c.wsRef \in {"open", "connecting"} THEN c
    ELSE [c EXCEPT !.wsRef = "connecting", !.connectionState = "connecting"]

startSession(c) ==
    IF c.wsRef = "open"
    THEN sendMessage([c EXCEPT !.hasActiveSessionRef = FALSE], "session.connect")
    ELSE openSocket([c EXCEPT !.hasActiveSessionRef = FALSE])

sendTextTurn(c, text) ==
    IF ~c.hasActiveSessionRef THEN c ELSE sendMessage(c, text)

sendVideoFrame(c) ==
    IF ~c.hasActiveSessionRef THEN c ELSE sendMessage(c, "video.frame")

sendActivityStart(c) ==
    IF ~c.hasActiveSessionRef THEN c ELSE sendMessage(c, "activity.start")

\* (mutant) activity.end is sent without a look at the active-session flag.
sendActivityEndAnytime(c) == sendMessage(c, "activity.end")

sendActivityEnd(c) ==
    IF ~c.hasActiveSessionRef THEN c ELSE sendMessage(c, "activity.end")

sendAudioChunk(c) ==
    IF ~c.hasActiveSessionRef THEN c ELSE sendMessage(c, "audio.chunk")

endAudioStream(c) ==
    IF ~c.hasActiveSessionRef THEN c ELSE sendMessage(c, "audio.end")

\* ------------------------------------------------------------- App
\* What a client handler works on.
Client ==
    [conn |-> conn, app |-> app, entries |-> entries, player |-> player, gate |-> gate,
     observe |-> observe, said |-> said, now |-> now]

\* A message of the server as the client reads it.
Message(type, reason, data, mimeType, waiting) ==
    [type |-> type, reason |-> reason, data |-> data, mimeType |-> mimeType,
     waiting |-> waiting, text |-> <<>>, finished |-> FALSE]

\* user.transcript, agent.text.delta and agent.turn.complete.
TextMessage(type, text, finished) ==
    [Message(type, <<>>, "", "", FALSE) EXCEPT !.text = text, !.finished = finished]

\* (mutant) the pending partial is committed and kept.
flushUserPartialKeeps(k) ==
    [k EXCEPT !.entries = appendEntry(@, "user", k.app.userPartialRef)]

flushUserPartial(k) ==
    LET pending == normalizeTranscriptText(k.app.userPartialRef)
    IN  IF pending = <<>> THEN k
        ELSE [k EXCEPT !.entries = appendEntry(@, "user", pending),
                       !.app.userPartialRef = <<>>]

\* onServerMessage, message.type === "user.transcript".
onUserTranscript(k, message) ==
    LET spoken == normalizeTranscriptText(message.text) # <<>>
        k1 == [k EXCEPT !.app.lastUserActivityAtRef = IF spoken THEN k.now ELSE @,
                        !.app.userPartialRef = message.text]
    IN  IF message.finished /\ spoken
        THEN [k1 EXCEPT !.entries = appendEntry(@, "user", message.text),
                        !.app.userPartialRef = <<>>]
        ELSE k1

\* previous is a prefix of text.
startsWith(text, previous) ==
    Len(previous) <= Len(text) /\ SubSeq(text, 1, Len(previous)) = previous

\* (mutant) every delta is appended to the accumulated text.
onAgentTextDeltaAppends(k, message) ==
    [k EXCEPT !.app.agentPartial = @ \o message.text]

\* onServerMessage, message.type === "agent.text.delta".
onAgentTextDelta(k, message) ==
    [k EXCEPT !.app.agentPartial =
        IF @ = <<>> THEN message.text
        ELSE IF startsWith(message.text, @) THEN message.text
        ELSE @ \o message.text]

\* (mutant) the agent's text is committed before the user partial.
onAgentTurnCompleteAgentFirst(k) ==
    flushUserPartial([k EXCEPT !.entries = appendEntry(@, "agent", k.app.agentPartial),
                              !.app.agentPartial = <<>>])

\* onServerMessage, message.type === "agent.turn.complete"; appendEntry
\* trims the text again, so currentText.trim() is left to it.
onAgentTurnComplete(k) ==
    LET k1 == flushUserPartial(k)
    IN  [k1 EXCEPT !.entries = appendEntry(@, "agent", k.app.agentPartial),
                   !.app.agentPartial = <<>>]

\* (mutant) the handler of live.interrupted leaves the playback alone.
onLiveInterruptedKeepsPlaying(k) ==
    [flushUserPartial(k) EXCEPT !.entries = appendEntry(@, "event",
                    <<"Model output interrupted by new user activity.">>)]

\* onServerMessage, message.type === "live.interrupted".
onLiveInterrupted(k) ==
    [flushUserPartial(k) EXCEPT
              !.entries = appendEntry(@, "event",
                    <<"Model output interrupted by new user activity.">>),
              !.player = stop(@)]

\* onServerMessage, message.type === "session.closed".
onSessionClosed(k, message) ==
    [flushUserPartial(k) EXCEPT
              !.entries = appendEntry(@, "event",
                    IF message.reason # <<>>
                    THEN <<"Session closed:", "_">> \o message.reason
                    ELSE <<"Session closed.">>),
              !.app.micEnabled = FALSE,
              !.app.cameraEnabled = FALSE,
              !.app.agentPartial = <<>>,
              !.app.lastFrameCaptureAtRef = 0,
              !.app.lastVisionFeedbackRequestAtRef = 0,
              !.app.lastUserActivityAtRef = 0,
              !.player = stop(@)]

\* App.onServerMessage for the messages delivered in the specifications
\* below; state: the state the browser creates an output context in.
onServerMessage(k, message, state) ==
    CASE message.type = "session.connected" ->
            [k EXCEPT !.app.lastUserActivityAtRef = k.now,
                      !.app.lastVisionFeedbackRequestAtRef = 0,
                      !.entries = appendEntry(@, "event", <<"Session connected (id).">>)]
      [] message.type = "session.closed" -> onSessionClosed(k, message)
      [] message.type = "agent.audio.chunk" ->
            [k EXCEPT !.player = enqueueChunk(@, message.data, message.mimeType, state)]
      [] message.type = "live.interrupted" -> onLiveInterrupted(k)
      [] message.type = "live.waiting-input" ->
            [k EXCEPT !.app.waitingForInput = message.waiting]
      [] message.type = "user.transcript" -> onUserTranscript(k, message)
      [] message.type = "agent.text.delta" -> onAgentTextDelta(k, message)
      [] message.type = "agent.turn.complete" -> onAgentTurnComplete(k)
      [] message.type = "live.error" ->
            [k EXCEPT !.entries = appendEntry(@, "event",
                                    <<"Live error:", "_">> \o message.reason)]
      [] OTHER -> k

\* socket.onmessage of useLiveConnection.
wsOnmessage(k, message, state) ==
    onServerMessage(
        [k EXCEPT !.conn =
            IF message.type = "session.connected"
            THEN [@ EXCEPT !.hasActiveSessionRef = TRUE, !.connectionState = "connected"]
            ELSE IF message.type = "session.closed"
            THEN [@ EXCEPT !.hasActiveSessionRef = FALSE,
                           !.connectionState = "disconnected",
                           !.wsRef = IF @ = "open" THEN "closing" ELSE @]
            ELSE @],
        message, state)

\* socket.onopen
wsOnopen(k) == [k EXCEPT !.conn = sendMessage([@ EXCEPT !.wsRef = "open"], "session.connect")]

\* socket.onclose
wsOnclose(k) ==
    [k EXCEPT !.conn = [@ EXCEPT !.hasActiveSessionRef = FALSE,
                                 !.connectionState = "disconnected", !.wsRef = "null"]]

\* The configured model passes isLikelyLiveModel.
onStartSession(k) ==
    [k EXCEPT !.app.lastUserActivityAtRef = k.now,
              !.conn = [startSession(@) EXCEPT !.stoppedAt = -1]]

\* onclose of a socket that stopSession closed: it clears wsRef whatever
\* socket is referenced by then.
wsOncloseDetached(k) ==
    [k EXCEPT !.conn = [@ EXCEPT !.hasActiveSessionRef = FALSE,
                                 !.connectionState = "disconnected",
                                 !.orphan = IF k.conn.wsRef \in {"connecting", "open"}
                                            THEN k.conn.wsRef ELSE @,
                                 !.wsRef = "null",
                                 !.detached = @ - 1]]

stopSession(c) ==
    LET c1 == sendMessage(c, "session.disconnect")
    IN  [c1 EXCEPT !.detached = IF c.wsRef = "null" THEN @ ELSE @ + 1,
                   !.wsRef = "null",
                   !.hasActiveSessionRef = FALSE,
                   !.connectionState = "disconnected"]

onStopSession(k) ==
    LET k1 == flushUserPartial(k)
    IN  [k1 EXCEPT !.conn = [stopSession(@) EXCEPT !.stoppedAt =
                                IF k.conn.connectionState = "connected"
                                THEN Len(k1.entries) ELSE @],
                   !.app.micEnabled = FALSE,
                   !.app.cameraEnabled = FALSE,
                   !.app.waitingForInput = FALSE,
                   !.app.lastFrameCaptureAtRef = 0,
                   !.app.lastVisionFeedbackRequestAtRef = 0,
                   !.app.lastUserActivityAtRef = 0,
                   !.player = stop(@)]

\* onInterrupt up to its return; the timeout it sets fires later.
onInterrupt(k) ==
    [k EXCEPT !.app.lastUserActivityAtRef = k.now,
              !.app.timeouts = @ + 1,
              !.conn = sendActivityStart(@),
              !.player = stop(@)]

onMicToggle(k, enabled) ==
    [k EXCEPT !.app.lastUserActivityAtRef = k.now,
              !.app.micEnabled = enabled,
              !.conn = IF ~enabled /\ k.conn.connectionState = "connected"
                       THEN endAudioStream(@) ELSE @]

RECURSIVE trimStart(_)
trimStart(text) ==
    IF text # <<>> /\ Head(text) = "_" THEN trimStart(Tail(text)) ELSE text

RECURSIVE trim(_)
\* String.prototype.trim
trim(text) ==
    IF trimStart(text) = <<>> THEN <<>>
    ELSE IF text[Len(text)] = "_" THEN trim(SubSeq(text, 1, Len(text) - 1))
    ELSE trimStart(text)

onSendText(k, draftText) ==
    LET trimmed == trim(draftText)
    IN  IF trimmed = <<>> THEN k
        ELSE [k EXCEPT !.conn = sendTextTurn(@, "text.turn"),
                       !.app.lastUserActivityAtRef = k.now,
                       !.entries = appendEntry(@, "user", trimmed)]

onTimeout(k) ==
    [k EXCEPT !.app.timeouts = @ - 1, !.conn = sendActivityEnd(@)]

\* The agent's audio is being played or prepared.
Speaking(p) == p.nextPlayTimeRef > 0 \/ p.queueRef # <<>> \/ p.passes # <<>>

\* The effect of useCameraStream after a render: it runs while enabled
\* (liveInputEnabled && cameraEnabled) is true, each run with a timer and a
\* retained signature of its own, and is cleaned up when enabled turns false.
useCameraStream(k) ==
    LET enabled == k.conn.connectionState = "connected" /\ k.app.cameraEnabled
    IN  IF enabled = k.gate.enabled THEN k.gate
        ELSE [k.gate EXCEPT !.enabled = enabled, !.timerId = FALSE,
                            !.lastSceneSample = NoSample]

\* (mutant) the interval is set whatever the latest waiting-for-input says.
useAutoObserveAlways(k) ==
    [k.observe EXCEPT !.intervalId =
        /\ k.app.visionAutoFeedbackEnabled
        /\ k.conn.connectionState = "connected"
        /\ k.app.cameraEnabled]

\* The auto-observe effect after a render: its interval is set while all
\* four conditions hold and cleared when one of them fails.
useAutoObserve(k) ==
    [k.observe EXCEPT !.intervalId =
        /\ k.app.visionAutoFeedbackEnabled
        /\ k.conn.connectionState = "connected"
        /\ k.app.cameraEnabled
        /\ k.app.waitingForInput]

\* The handlers of the user's actions: the microphone switch, 'send text
\* turn', 'analyze latest frame' and 'interrupt now'.
UserOps == {"mic", "sendText", "manual", "interrupt"}

\* The handlers of the messages that build or end the agent's text.
AgentOps == {"agent.text.delta", "agent.turn.complete", "live.interrupted"}

\* The handlers that write to the transcript or to the user partial.
SaidOps ==
    {"appendEntry", "user.transcript", "agent.text.delta", "agent.turn.complete",
     "live.interrupted", "session.closed", "stopSession"}

\* What the deltas received since the last agent.turn.complete or
\* live.interrupted accumulate to, by the rule of agent.text.delta.
Fresh(op, text) ==
    IF op = "agent.text.delta"
    THEN onAgentTextDelta([app |-> [agentPartial |-> said.fresh]],
                          [text |-> text]).app.agentPartial
    ELSE IF op \in {"agent.turn.complete", "live.interrupted"} THEN <<>>
    ELSE said.fresh

\* The handler op took the client to k.
Hear(op, k, flag, late) ==
    /\ conn' = [k.conn EXCEPT !.fx = <<>>,
                             !.up = IF k.conn.wired THEN @ \o k.conn.fx ELSE @]
    /\ app' = k.app
    /\ entries' = k.entries
    /\ player' = k.player
    /\ gate' = [useCameraStream(k) EXCEPT !.tick = IF op = "tick" THEN @ ELSE GateNew.tick]
    /\ observe' = [useAutoObserve(k) EXCEPT
                        !.tick = IF op = "observe" THEN @ ELSE ObserveNew.tick,
                        !.autoSentAt =
                            IF op \in {"session.connected", "session.closed"} THEN 0 ELSE @,
                        !.actedAt = IF op \in UserOps THEN now ELSE @]
    /\ said' = IF op \in SaidOps
               THEN [previous |-> entries, partial |-> app.userPartialRef,
                     acc |-> IF op \in AgentOps THEN app.agentPartial ELSE <<>>,
                     role |-> IF op \in {"appendEntry", "user.transcript"}
                              THEN k.said.role ELSE "",
                     text |-> IF op \in {"appendEntry", "user.transcript", "agent.text.delta"}
                              THEN k.said.text ELSE <<>>,
                     fresh |-> Fresh(op, k.said.text)]
               ELSE [SaidNew EXCEPT !.fresh = said.fresh]
    /\ heard' = Heard(op, k.conn.fx, flag, late, Speaking(player))
    /\ UNCHANGED <<now, serverVars>>

\* ------------------------------------------------------------- playback: the steps
\* The messages the server sends that reach the playback.
PlaybackMessages ==
    {Message("session.connected", <<>>, "", "", FALSE),
     Message("live.interrupted", <<>>, "", "", FALSE)}
    \cup {Message("session.closed", r, "", "", FALSE) :
            r \in {<<>>, <<"_">>, <<"Live session closed.">>}}
    \cup {Message("agent.audio.chunk", <<>>, d, m, FALSE) : d \in AudioData, m \in MimeTypes}

ContextStates == {"suspended", "running"}

Without(seq, i) == SubSeq(seq, 1, i - 1) \o SubSeq(seq, i + 1, Len(seq))

\* 'start live session' is clicked.
StartClick ==
    /\ conn.wsRef \in {"null", "open"}
    /\ Hear("start", onStartSession(Client), heard.interrupting, heard.late)

\* The websocket the client opened is open.
SocketOpens ==
    /\ conn.wsRef = "connecting"
    /\ Hear("open", wsOnopen(Client), heard.interrupting, heard.late)

\* The websocket closes.
SocketCloses ==
    /\ conn.wsRef # "null"
    /\ Hear("close", wsOnclose(Client), FALSE, heard.late)

\* A message of the server arrives.
Delivered(message, state) ==
    /\ conn.wsRef \in {"open", "closing"}
    /\ message.type = "agent.audio.chunk" => player.enqueued < MaxChunks
    /\ message.type \in {"live.interrupted", "session.closed"} => player.stops < MaxStops
    /\ LET k == [wsOnmessage(Client, message, state) EXCEPT !.said.text = message.text]
       IN  Hear(message.type, k,
                heard.interrupting /\ message.type \notin {"live.interrupted", "session.closed"},
                IF heard.interrupting /\ k.player.enqueued > player.enqueued
                THEN heard.late \cup {k.player.enqueued} ELSE heard.late)

\* 'interrupt now' is clicked; the button is enabled while connected.
InterruptClick ==
    /\ conn.connectionState = "connected"
    /\ player.stops < MaxStops
    /\ Hear("interrupt", onInterrupt(Client), Speaking(player), heard.late)

\* The timeout set by onInterrupt fires.
TimeoutFires ==
    /\ app.timeouts > 0
    /\ Hear("timeout", onTimeout(Client), heard.interrupting, heard.late)

\* context.resume() settles for the drain pass that awaits it.
ContextResumed(i, ok, state) ==
    /\ i \in 1..Len(player.passes)
    /\ player.passes[i].at = "resume"
    /\ LET pass == player.passes[i]
           p == [player EXCEPT !.passes = Without(@, i),
                               !.contexts[pass.context].state =
                                    IF ok /\ @ = "suspended" THEN "running" ELSE @]
       IN  Hear("resumed",
                [Client EXCEPT !.player =
                    IF ok THEN createBufferFromChunk(p, pass.chunk, pass.context, state)
                    ELSE processQueueCatch(p)],
                heard.interrupting, heard.late)

\* context.decodeAudioData() settles for the drain pass that awaits it.
AudioDecoded(i, ok, state) ==
    /\ i \in 1..Len(player.passes)
    /\ player.passes[i].at = "decode"
    /\ LET pass == player.passes[i]
           p == [player EXCEPT !.passes = Without(@, i)]
       IN  Hear("decoded",
                [Client EXCEPT !.player =
                    IF ok THEN processQueue(scheduleBuffer(p, pass.context, pass.chunk), state)
                    ELSE processQueueCatch(p)],
                heard.interrupting, heard.late)

\* The clock of the running output context advances.
ClockTick ==
    /\ player.contextRef # NoContext
    /\ player.contexts[player.contextRef].state = "running"
    /\ player.contexts[player.contextRef].currentTime < MaxTime
    /\ player' = [player EXCEPT !.contexts[player.contextRef].currentTime = @ + 1]
    /\ UNCHANGED <<conn, app, entries, gate, observe, said, now, heard, serverVars>>

\* enqueueChunk is called.
Enqueue(data, mimeType, state) ==
    /\ player.enqueued < MaxChunks
    /\ Hear("enqueueChunk", [Client EXCEPT !.player = enqueueChunk(@, data, mimeType, state)],
            FALSE, {})

\* stop() is called.
Stop ==
    /\ player.stops < MaxStops
    /\ Hear("stop", [Client EXCEPT !.player = stop(@)], FALSE, {})

PlaybackInit == Init /\ apiKey = "key"

\* The scheduler under any use of enqueueChunk and stop.
PlaybackNext ==
    \/ \E d \in AudioData, m \in MimeTypes, state \in ContextStates : Enqueue(d, m, state)
    \/ Stop
    \/ \E i \in 1..MaxChunks, ok \in BOOLEAN, state \in ContextStates : ContextResumed(i, ok, state)
    \/ \E i \in 1..MaxChunks, ok \in BOOLEAN, state \in ContextStates : AudioDecoded(i, ok, state)
    \/ ClockTick

PlaybackSpec == PlaybackInit /\ [][PlaybackNext]_vars

\* ------------------------------------------------------------- playback: properties
\* Chunk a was accepted and scheduled, and then chunk b, with no stop() from
\* the call that accepted a to the scheduling of b.
Uninterrupted(a, b) ==
    /\ a.stops = a.at
    /\ b.stops = b.at
    /\ a.at = b.at

\* C12: with no stop() in between, chunks are scheduled in the order they were
\* accepted, start times never decrease, and each chunk starts no earlier
\* than the start of the chunk before it plus that chunk's duration.
C12_ScheduledInOrder ==
    \A i \in 1..(Len(player.scheduled) - 1) :
        LET a == player.scheduled[i]
            b == player.scheduled[i + 1]
        IN  Uninterrupted(a, b)
            => /\ a.id < b.id
               /\ a.startAt <= b.startAt
               /\ b.startAt >= a.startAt + a.duration

\* Two chunks were scheduled in a row on one context, the second at the
\* cursor the first left, later than the lookahead alone would put it.
C12_Witness ==
    /\ Len(player.scheduled) = 2
    /\ Uninterrupted(player.scheduled[1], player.scheduled[2])
    /\ player.scheduled[1].context = player.scheduled[2].context
    /\ player.scheduled[2].startAt = player.scheduled[1].startAt + player.scheduled[1].duration
    /\ player.scheduled[2].startAt > player.scheduled[2].currentTime + Lookahead

\* C13: the first chunk accepted after a stop() is scheduled against a cursor
\* of 0, so that it starts at the lookahead on an output context created
\* after that stop(); and no chunk is scheduled on an output context created
\* after a stop() that followed the chunk's acceptance.
C13_StopResetsCursor ==
    \A i \in 1..Len(player.scheduled) :
        LET e == player.scheduled[i]
        IN  /\ e.first => /\ e.cursor = 0
                          /\ e.startAt = e.currentTime + Lookahead
                          /\ player.contexts[e.context].stops = e.stops
            /\ player.contexts[e.context].stops <= e.stops

\* ------------------------------------------------------------- interruption
\* The App on one websocket: session start, the server's messages, the
\* 'interrupt now' button and the drain passes of the playback.
InterruptMessages ==
    {m \in PlaybackMessages :
        /\ m.data \in {"", "AAAA"}
        /\ m.mimeType \in {"", "audio/pcm;rate=24000", "audio/wav"}
        /\ m.reason \in {<<>>, <<"Live session closed.">>}}

InterruptNext ==
    \/ StartClick
    \/ SocketOpens
    \/ SocketCloses
    \/ \E m \in InterruptMessages, state \in ContextStates : Delivered(m, state)
    \/ InterruptClick
    \/ TimeoutFires
    \/ \E i \in 1..MaxChunks, ok \in BOOLEAN, state \in ContextStates : ContextResumed(i, ok, state)
    \/ \E i \in 1..MaxChunks, ok \in BOOLEAN, state \in ContextStates : AudioDecoded(i, ok, state)

InterruptSpec == PlaybackInit /\ [][InterruptNext]_vars

\* C14: right after the client handled live.interrupted or session.closed
\* the playback is stopped: nothing is queued, the cursor is 0 and no output
\* context is held.
C14_StoppedOnInterruptOrClose ==
    heard.op \in {"live.interrupted", "session.closed"}
    => /\ player.queueRef = <<>>
       /\ player.nextPlayTimeRef = 0
       /\ player.contextRef = NoContext

\* live.interrupted was handled while audio of the agent was playing.
C14_Witness ==
    /\ heard.op = "live.interrupted"
    /\ heard.busy
    /\ player.scheduled # <<>>
    /\ player.nextPlayTimeRef = 0

InterruptionEntry ==
    [role |-> "event", text |-> <<"Model output interrupted by new user activity.">>]

\* C15: after 'interrupt now' was clicked while the agent's audio was
\* playing, no chunk that arrives before the interruption is acknowledged is
\* scheduled for playback; and once live.interrupted is handled the
\* transcript ends with the interruption event.
C15_SilentAfterInterrupt ==
    /\ \A i \in 1..Len(player.scheduled) : player.scheduled[i].id \notin heard.late
    /\ heard.op = "live.interrupted"
        => (entries # <<>> /\ entries[Len(entries)] = InterruptionEntry)

\* ------------------------------------------------------------- scene-change gate
\* sceneChangeThreshold's default; App passes none.
sceneChangeThreshold == 12

\* The camera shows gray pixels, GrayStep apart.
GrayStep == 6

Pixels == {[red |-> GrayStep * l, green |-> GrayStep * l, blue |-> GrayStep * l] : l \in 0..MaxLevel}

\* The scene canvas, one pixel per cell.
Frames == [1..MaxCells -> Pixels]

\* red * 0.299 + green * 0.587 + blue * 0.114, in thousandths.
Luma(pixel) == 299 * pixel.red + 587 * pixel.green + 114 * pixel.blue

getSceneSignature(frame) == [c \in 1..MaxCells |-> Luma(frame[c])]

Abs(x) == IF x < 0 THEN 0 - x ELSE x

RECURSIVE totalDiff(_, _, _)
totalDiff(next, lastSample, index) ==
    IF index > Len(next) THEN 0
    ELSE Abs(next[index] - lastSample[index]) + totalDiff(next, lastSample, index + 1)

\* (mutant) a change of exactly the threshold does not count.
hasMeaningfulSceneChangeAbove(lastSceneSample, nextSample) ==
    IF lastSceneSample = NoSample THEN TRUE
    ELSE totalDiff(nextSample, lastSceneSample, 1) > sceneChangeThreshold * 1000 * Len(nextSample)

\* averageDiff >= sceneChangeThreshold, with both sides times 1000 * length.
hasMeaningfulSceneChange(lastSceneSample, nextSample) ==
    IF lastSceneSample = NoSample THEN TRUE
    ELSE totalDiff(nextSample, lastSceneSample, 1) >= sceneChangeThreshold * 1000 * Len(nextSample)

\* (mutant) every sample taken is retained.
retainEverySample(g, sample) == [g EXCEPT !.lastSceneSample = sample]

\* What the tick retains for a sample: lines 130-134.
retain(g, sample) ==
    IF ~hasMeaningfulSceneChange(g.lastSceneSample, sample) THEN g
    ELSE [g EXCEPT !.lastSceneSample = sample]

\* What canvas.toDataURL('image/jpeg', 0.72) returns: a data: URL.
DataUrls == {"data:image/jpeg;base64,/9j/4AAQ"}

\* dataUrl.indexOf(',') # -1
hasComma(dataUrl) == dataUrl \in {"data:image/jpeg;base64,/9j/4AAQ", "data:,"}

onCameraFrame(k) ==
    [k EXCEPT !.app.lastFrameCaptureAtRef = k.now, !.conn = sendVideoFrame(@)]

\* The interval callback; sized: the video element has dimensions.
intervalTick(k, frame, sized, dataUrl) ==
    LET g == k.gate
        sample == getSceneSignature(frame)
        emits == /\ sized
                 /\ hasMeaningfulSceneChange(g.lastSceneSample, sample)
                 /\ hasComma(dataUrl)
        after == IF sized THEN retain(g, sample) ELSE g
        k1 == [k EXCEPT !.gate =
                    [after EXCEPT !.emitted = IF emits THEN sample ELSE @,
                                  !.tick = [sample |-> IF sized THEN sample ELSE NoSample,
                                            retained |-> g.lastSceneSample,
                                            before |-> g.emitted,
                                            onFrame |-> emits]]]
    IN  IF emits THEN onCameraFrame(k1) ELSE k1

\* 'stream camera frames' is switched; the checkbox is enabled while connected.
CameraToggle(enabled) ==
    /\ conn.connectionState = "connected"
    /\ Hear("camera", [Client EXCEPT !.app.cameraEnabled = enabled],
            heard.interrupting, heard.late)

\* start() of the running effect got the stream and set the interval.
CameraStarted ==
    /\ gate.enabled
    /\ ~gate.timerId
    /\ Hear("started", [Client EXCEPT !.gate.timerId = TRUE], heard.interrupting, heard.late)

\* The interval of the running effect fires.
VideoTick(frame, sized, dataUrl) ==
    /\ gate.timerId
    /\ Hear("tick", intervalTick(Client, frame, sized, dataUrl), heard.interrupting, heard.late)

GateMessages ==
    {m \in PlaybackMessages : m.type \in {"session.connected", "session.closed"} /\ m.reason = <<>>}

\* The camera stream of the App on one websocket.
GateNext ==
    \/ StartClick
    \/ SocketOpens
    \/ SocketCloses
    \/ \E m \in GateMessages : Delivered(m, "running")
    \/ \E enabled \in BOOLEAN : CameraToggle(enabled)
    \/ CameraStarted
    \/ \E frame \in Frames, sized \in BOOLEAN, dataUrl \in DataUrls :
            VideoTick(frame, sized, dataUrl)

GateSpec == PlaybackInit /\ [][GateNext]_vars

\* The mean absolute difference per cell of two signatures is at least the
\* threshold (signatures are in thousandths).
Changed(a, b) ==
    LET sum[c \in 0..MaxCells] == IF c = 0 THEN 0 ELSE sum[c - 1] + Abs(a[c] - b[c])
    IN  sum[MaxCells] >= 12000 * MaxCells

\* C16: a tick that sampled the scene calls onFrame if and only if nothing is
\* retained or the sample differs by at least the threshold from the frame
\* emitted last; so a first frame is emitted and a frame equal to the one
\* emitted last is not.
C16_EmittedIffChanged ==
    gate.tick.sample # NoSample
    => /\ gate.tick.onFrame
            <=> (gate.tick.retained = NoSample \/ Changed(gate.tick.sample, gate.tick.before))
       /\ gate.tick.retained = NoSample => gate.tick.onFrame
       /\ (gate.tick.retained # NoSample /\ gate.tick.sample = gate.tick.before)
            => ~gate.tick.onFrame

\* A frame was emitted whose sample differs from the frame emitted before by
\* exactly the threshold.
C16_Witness ==
    /\ gate.tick.onFrame
    /\ gate.tick.retained # NoSample
    /\ \A c \in 1..MaxCells : gate.tick.sample[c] - gate.tick.before[c] = 12000

\* C17: the signature retained is absent or that of the frame emitted last,
\* and a tick that does not call onFrame leaves it as it was.
C17_RetainedIsLastEmitted ==
    /\ gate.lastSceneSample \in {NoSample, gate.emitted}
    /\ (heard.op = "tick" /\ ~gate.tick.onFrame)
        => gate.lastSceneSample = gate.tick.retained

\* A tick sampled a scene other than the one retained and was suppressed.
C17_Witness ==
    /\ heard.op = "tick"
    /\ ~gate.tick.onFrame
    /\ gate.tick.sample \notin {NoSample, gate.tick.retained}
    /\ gate.lastSceneSample = gate.emitted
    /\ gate.emitted # NoSample

\* ------------------------------------------------------------- auto-observe
manualVisionPrompt == "Analyze the latest camera frame now."
autoVisionPrompt == "You are in auto-observe mode."

userSilenceThresholdMs == 8000
autoFeedbackCooldownMs == 18000
autoFeedbackFrameFreshnessMs == 8000

\* (mutant) no cooldown between automatic requests.
coolingDownNever(a, mode, t) == FALSE

\* The cooldown test of requestVisionFeedback at time t.
coolingDown(a, mode, t) ==
    mode = "auto" /\ t - a.lastVisionFeedbackRequestAtRef < autoFeedbackCooldownMs

\* (mutant) a frame of any age is taken to be fresh.
frameStaleNever(a, mode, t) == FALSE

\* The freshness test of requestVisionFeedback at time t.
frameStale(a, mode, t) ==
    mode = "auto" /\ t - a.lastFrameCaptureAtRef > autoFeedbackFrameFreshnessMs

\* (mutant) the user's activity is stamped for automatic requests too.
requestVisionFeedbackAsUser(k, mode) ==
    IF k.conn.connectionState # "connected" \/ ~k.app.cameraEnabled THEN k
    ELSE IF coolingDown(k.app, mode, k.now) THEN k
    ELSE IF frameStale(k.app, mode, k.now) THEN k
    ELSE LET k1 == [k EXCEPT !.app.lastVisionFeedbackRequestAtRef = k.now,
                             !.app.lastUserActivityAtRef = k.now,
                             !.conn = sendTextTurn(@, IF mode = "manual"
                                                      THEN manualVisionPrompt
                                                      ELSE autoVisionPrompt)]
         IN  IF mode = "manual"
             THEN [k1 EXCEPT !.entries = appendEntry(@, "user",
                                            <<"[vision]", "_", "analyze", "_", "latest",
                                              "_", "frame">>)]
             ELSE k1

requestVisionFeedback(k, mode) ==
    IF k.conn.connectionState # "connected" \/ ~k.app.cameraEnabled THEN k
    ELSE IF coolingDown(k.app, mode, k.now) THEN k
    ELSE IF frameStale(k.app, mode, k.now) THEN k
    ELSE LET k1 == [k EXCEPT !.app.lastVisionFeedbackRequestAtRef = k.now,
                             !.conn = sendTextTurn(@, IF mode = "manual"
                                                      THEN manualVisionPrompt
                                                      ELSE autoVisionPrompt)]
         IN  IF mode = "manual"
             THEN [k1 EXCEPT !.app.lastUserActivityAtRef = k.now,
                             !.entries = appendEntry(@, "user",
                                            <<"[vision]", "_", "analyze", "_", "latest",
                                              "_", "frame">>)]
             ELSE k1

\* (mutant) the interval does not wait for the user to be silent.
autoObserveTickAnytime(k) == requestVisionFeedback(k, "auto")

\* The callback of the auto-observe interval.
autoObserveTick(k) ==
    IF k.now - k.app.lastUserActivityAtRef < userSilenceThresholdMs THEN k
    ELSE requestVisionFeedback(k, "auto")

\* Whether the messages written hold an auto-observation turn.
SentAuto(fx) == \E i \in 1..Len(fx) : fx[i] = autoVisionPrompt

\* 'auto observe' is switched; the checkbox is enabled while connected with
\* the camera on.
AutoToggle(enabled) ==
    /\ conn.connectionState = "connected"
    /\ app.cameraEnabled
    /\ Hear("auto", [Client EXCEPT !.app.visionAutoFeedbackEnabled = enabled],
            heard.interrupting, heard.late)

\* 'analyze latest frame' is clicked; the button is enabled while connected
\* with the camera on.
ManualRequest ==
    /\ conn.connectionState = "connected"
    /\ app.cameraEnabled
    /\ observe.requests < MaxRequests
    /\ Hear("manual",
            requestVisionFeedback([Client EXCEPT !.observe.requests = @ + 1], "manual"),
            heard.interrupting, heard.late)

\* The interval of the running auto-observe effect fires.
ObserveTick ==
    /\ observe.intervalId
    /\ LET k == autoObserveTick(Client)
           sent == SentAuto(k.conn.fx)
       IN  Hear("observe",
                [k EXCEPT !.observe.tick =
                        [now |-> now,
                         lastUserActivityAt |-> app.lastUserActivityAtRef,
                         lastVisionFeedbackRequestAt |-> app.lastVisionFeedbackRequestAtRef,
                         lastFrameCaptureAt |-> app.lastFrameCaptureAtRef,
                         enabled |-> app.visionAutoFeedbackEnabled,
                         connectionState |-> conn.connectionState,
                         cameraEnabled |-> app.cameraEnabled,
                         waitingForInput |-> app.waitingForInput,
                         sent |-> sent,
                         previousAt |-> observe.autoSentAt],
                          !.observe.autoSentAt = IF sent THEN now ELSE @],
                heard.interrupting, heard.late)

\* Stretches of time the browser lets pass between two callbacks.
Delays == {userSilenceThresholdMs, autoFeedbackCooldownMs}

\* Time passes.
Elapse(d) ==
    /\ observe.elapses < MaxElapses
    /\ now' = now + d
    /\ observe' = [observe EXCEPT !.elapses = @ + 1]
    /\ UNCHANGED <<conn, app, entries, player, gate, said, heard, serverVars>>

ObserveMessages ==
    {Message("session.connected", <<>>, "", "", FALSE),
     Message("session.closed", <<>>, "", "", FALSE)}
    \cup {Message("live.waiting-input", <<>>, "", "", w) : w \in BOOLEAN}

\* What the camera shows while observed: a dark scene or a bright one.
ObserveFrames ==
    {frame \in Frames : \A c \in 1..MaxCells : frame[c].red \in {0, MaxLevel * GrayStep}
                                                /\ frame[c] = frame[1]}

\* The auto-observe effect of the App on one websocket.
ObserveNext ==
    \/ StartClick
    \/ SocketOpens
    \/ \E m \in ObserveMessages : Delivered(m, "running")
    \/ \E enabled \in BOOLEAN : CameraToggle(enabled)
    \/ \E enabled \in BOOLEAN : AutoToggle(enabled)
    \/ CameraStarted
    \/ \E frame \in ObserveFrames, dataUrl \in DataUrls : VideoTick(frame, TRUE, dataUrl)
    \/ ObserveTick
    \/ \E d \in Delays : Elapse(d)

ObserveSpec == PlaybackInit /\ [][ObserveNext]_vars

\* The same with manual requests for feedback in between.
VisionNext ==
    \/ ObserveNext
    \/ ManualRequest

VisionSpec == PlaybackInit /\ [][VisionNext]_vars

SilentTick ==
    /\ heard.op = "observe"
    /\ observe.tick.waitingForInput
    /\ observe.tick.now - observe.tick.lastUserActivityAt >= 8000

\* C19: a tick that finds silence with waitingForInput true less than 18000 ms
\* after the last auto-feedback writes no message and leaves the timestamp
\* of the last auto-feedback alone; and an auto-observation turn is written
\* no sooner than 18000 ms after the one written before it in the session.
C19_CooldownBetweenAutoTurns ==
    /\ (SilentTick
        /\ observe.tick.now - observe.tick.lastVisionFeedbackRequestAt < 18000)
        => /\ heard.sent = <<>>
           /\ ~observe.tick.sent
           /\ app.lastVisionFeedbackRequestAtRef = observe.tick.lastVisionFeedbackRequestAt
    /\ (heard.op = "observe" /\ observe.tick.sent /\ observe.tick.previousAt # 0)
        => observe.tick.now - observe.tick.previousAt >= 18000

\* A silent tick was turned down 8000 ms after an auto-observation turn of
\* the same session.
C19_Witness ==
    /\ SilentTick
    /\ observe.tick.previousAt # 0
    /\ observe.tick.previousAt = observe.tick.lastVisionFeedbackRequestAt
    /\ observe.tick.now - observe.tick.previousAt = 8000
    /\ heard.sent = <<>>

\* C20: a tick that finds silence with the cooldown over but the last camera
\* frame captured more than 8000 ms ago writes no message and leaves the
\* timestamp of the last auto-feedback alone.
C20_StaleFrameSendsNothing ==
    (SilentTick
     /\ observe.tick.now - observe.tick.lastVisionFeedbackRequestAt >= 18000
     /\ observe.tick.now - observe.tick.lastFrameCaptureAt > 8000)
    => /\ heard.sent = <<>>
       /\ ~observe.tick.sent
       /\ app.lastVisionFeedbackRequestAtRef = observe.tick.lastVisionFeedbackRequestAt

\* A silent tick past the cooldown was turned down for a frame captured
\* 16000 ms before.
C20_Witness ==
    /\ SilentTick
    /\ observe.tick.now - observe.tick.lastVisionFeedbackRequestAt >= 18000
    /\ observe.tick.lastFrameCaptureAt # 0
    /\ observe.tick.now - observe.tick.lastFrameCaptureAt = 16000
    /\ heard.sent = <<>>
    /\ app.lastVisionFeedbackRequestAtRef = observe.tick.lastVisionFeedbackRequestAt

\* ------------------------------------------------------------- the transcript log
Roles == {"user", "agent", "event"}

\* Texts given to appendEntry: blank, two spellings of one text, another text.
Texts == {<<"_">>, <<"a", "_", "b">>, <<"_", "a", "_", "_", "b", "_">>, <<"c">>}

\* appendEntry is called.
AppendEntry(role, text) ==
    /\ Len(entries) < MaxEntries
    /\ Hear("appendEntry",
            [Client EXCEPT !.entries = appendEntry(@, role, text),
                           !.said.role = role, !.said.text = text],
            FALSE, {})

LogNext == \E role \in Roles, text \in Texts : AppendEntry(role, text)

LogSpec == PlaybackInit /\ [][LogNext]_vars

\* Entries a and b have the same role and the same text after normalization.
Alike(a, b) ==
    /\ a.role = b.role
    /\ normalizeTranscriptText(a.text) = normalizeTranscriptText(b.text)

\* C21: no two adjacent entries of the log have the same role and the same
\* whitespace-normalized text, and appending an entry that is, after
\* normalization, the last entry of the same role leaves the log unchanged.
C21_NoAdjacentDuplicates ==
    /\ \A i \in 1..(Len(entries) - 1) : ~Alike(entries[i], entries[i + 1])
    /\ (heard.op = "appendEntry" /\ said.previous # <<>>
        /\ Alike(said.previous[Len(said.previous)], said))
        => entries = said.previous

\* An entry spelled differently from the last one, and equal to it after
\* normalization, was given to appendEntry.
C21_Witness ==
    /\ heard.op = "appendEntry"
    /\ said.previous # <<>>
    /\ Alike(said.previous[Len(said.previous)], said)
    /\ said.previous[Len(said.previous)].text # said.text
    /\ entries = said.previous

\* The agent entries of a log, oldest first.
AgentEntries(es) == SelectSeq(es, LAMBDA e : e.role = "agent")

\* The positions of the last n entries of a log.
Recent(es, n) == {i \in 1..Len(es) : i > Len(es) - n}

\* C22 as stated: an agent entry equal after normalization to one of the four
\* most recent agent entries is dropped, whatever lies between them.
C22_DroppedAmongLastFourAgentEntries ==
    (heard.op = "appendEntry" /\ said.role = "agent"
     /\ \E i \in Recent(AgentEntries(said.previous), 4) :
            Alike(AgentEntries(said.previous)[i], said))
    => entries = said.previous

\* C22 amended: a non-blank agent entry is dropped exactly when it equals,
\* after normalization, an agent entry among the last four entries of the
\* log; user and event entries count towards the four.
C22_DroppedAmongLastFourEntries ==
    (heard.op = "appendEntry" /\ said.role = "agent"
     /\ normalizeTranscriptText(said.text) # <<>>)
    => (entries = said.previous
        <=> \E i \in Recent(said.previous, 4) : Alike(said.previous[i], said))

\* An agent entry was dropped for an agent entry three entries back.
C22_Witness ==
    /\ heard.op = "appendEntry"
    /\ said.role = "agent"
    /\ Len(said.previous) >= 4
    /\ Alike(said.previous[Len(said.previous) - 3], said)
    /\ \A i \in Recent(said.previous, 3) : said.previous[i].role # "agent"
    /\ entries = said.previous

\* ------------------------------------------------------------- stopping a session
\* 'stop session' is clicked.
StopClick ==
    /\ player.stops < MaxStops
    /\ Hear("stopSession", onStopSession(Client), FALSE, heard.late)

\* A socket that stopSession closed is closed.
DetachedCloses ==
    /\ conn.detached > 0
    /\ Hear("close", wsOncloseDetached(Client), heard.interrupting, heard.late)

\* What the user says, as the server transcribes it.
Speech == {<<"a">>, <<"a", "_", "b">>, <<"_">>}

StopMessages ==
    {Message("session.connected", <<>>, "", "", FALSE),
     Message("session.closed", <<>>, "", "", FALSE)}
    \cup {TextMessage("user.transcript", text, FALSE) : text \in Speech}

\* A message of the server arrives while the transcript has room.
Transcribed(message) ==
    /\ Len(entries) < MaxEntries
    /\ Delivered(message, "running")

\* Sessions started and stopped by the user on the client's websocket.
StopNext ==
    \/ StartClick
    \/ SocketOpens
    \/ SocketCloses
    \/ \E m \in StopMessages : Transcribed(m)
    \/ StopClick
    \/ DetachedCloses

StopSpec == PlaybackInit /\ [][StopNext]_vars

\* The entry appendEntry writes for session.closed.
SessionClosedEntry(e) ==
    e.role = "event" /\ Head(e.text) \in {"Session closed.", "Session closed:"}

\* C23: once 'stop session' was clicked in a connected session and the socket
\* it closed is closed, with no session started since, the transcript holds a
\* 'Session closed' entry written after the click.
C23_StopShowsSessionClosed ==
    (conn.stoppedAt >= 0 /\ conn.detached = 0 /\ conn.wsRef = "null")
    => \E i \in 1..Len(entries) : i > conn.stoppedAt /\ SessionClosedEntry(entries[i])

\* ------------------------------------------------------------- the fan-out
\* Inline parts: audio with data (two spellings of the type), an image, and
\* audio without data.
PartLists == {<<>>, <<"image/png", "Audio/L16", "audio/empty", "audio/pcm">>}

\* Upstream events by every combination of what handleServerMessage reads.
FanEvents ==
    {LiveServerMessage(setup, parts, inTx[1], inTx[2], outTx[1], outTx[2], interrupted,
                       turnComplete, waiting) :
        setup \in BOOLEAN, parts \in PartLists,
        inTx \in {<<"absent", FALSE>>, <<"", TRUE>>, <<"blank", FALSE>>, <<"text", TRUE>>},
        outTx \in {<<"absent", "blank">>, <<"blank", "text">>, <<"text", "text">>},
        interrupted \in BOOLEAN, turnComplete \in BOOLEAN,
        waiting \in {"absent", "true", "false"}}

\* The first event a session of the bridge delivers.
FirstEvent(s, message) ==
    /\ nev = 0
    /\ ServerMessage(s, message)

\* The sessions of the bridge and one event of theirs.
FanOutNext ==
    \/ \E throws \in BOOLEAN : Receive(Plain("session.connect"), throws)
    \/ \E s \in SessionIds : ConnectResolve(s)
    \/ \E s \in SessionIds, m \in FanEvents : FirstEvent(s, m)
    \/ SocketClose

FanOutSpec == Init /\ [][FanOutNext]_vars

\* The place of a message type in the order of the fan-out.
Rank(t) ==
    CASE t = "session.connected" -> 1
      [] t = "agent.audio.chunk" -> 2
      [] t = "user.transcript" -> 3
      [] t = "agent.text.delta" -> 4
      [] t = "live.interrupted" -> 5
      [] t = "agent.turn.complete" -> 6
      [] t = "live.waiting-input" -> 7
      [] OTHER -> 0

\* The messages of type t among out.
OfType(out, t) == SelectSeq(out, LAMBDA e : e.t = t)

\* The inline parts that are audio with data, in part order.
AudioParts(parts) == SelectSeq(parts, LAMBDA p : p \in {"audio/pcm", "Audio/L16"})

\* C24: for one upstream event the bridge emits, in this order and each on
\* its own condition: session.connected, one agent.audio.chunk per audio
\* part in part order, user.transcript, at most one agent.text.delta,
\* live.interrupted, agent.turn.complete, live.waiting-input (also for an
\* explicit false).
C24_FanOutInOrder ==
    last.op = "servermessage" =>
        LET m == last.shape
            out == Emits(last.fx)
            chunks == OfType(out, "agent.audio.chunk")
        IN  /\ \A i \in 1..Len(out) : Rank(out[i].t) > 0
            /\ \A i \in 1..Len(out), j \in 1..Len(out) :
                    i < j => Rank(out[i].t) <= Rank(out[j].t)
            /\ Len(OfType(out, "session.connected")) = IF m.setupComplete THEN 1 ELSE 0
            /\ Len(chunks) = Len(AudioParts(m.parts))
            /\ \A i \in 1..Len(chunks) : chunks[i].a = AudioParts(m.parts)[i]
            /\ Len(OfType(out, "user.transcript"))
                    = IF m.inputTranscription \in {"blank", "text"} THEN 1 ELSE 0
            /\ \A e \in {out[i] : i \in 1..Len(out)} :
                    e.t = "user.transcript" =>
                        e.a = IF m.finished THEN "finished" ELSE "partial"
            /\ Len(OfType(out, "agent.text.delta"))
                    = IF m.outputTranscription = "text" \/ m.text = "text" THEN 1 ELSE 0
            /\ Len(OfType(out, "live.interrupted")) = IF m.interrupted THEN 1 ELSE 0
            /\ Len(OfType(out, "agent.turn.complete")) = IF m.turnComplete THEN 1 ELSE 0
            /\ Len(OfType(out, "live.waiting-input"))
                    = IF m.waitingForInput = "absent" THEN 0 ELSE 1
            /\ \A e \in {out[i] : i \in 1..Len(out)} :
                    e.t = "live.waiting-input" => e.a = m.waitingForInput

\* An event with every field set, waitingForInput false, gave eight messages.
C24_Witness ==
    /\ last.op = "servermessage"
    /\ last.shape.waitingForInput = "false"
    /\ Len(Emits(last.fx)) = 8
    /\ Emits(last.fx)[8].t = "live.waiting-input"
    /\ Emits(last.fx)[8].a = "false"

\* ------------------------------------------------------------- the error callback
\* The well-formed payloads that carry data for the session.
DataPayloads ==
    {raw \in Payloads : parseClientMessage(raw) # null
                        /\ parseClientMessage(raw).type \in DataTags}

\* Handling raw in the present state calls the session the bridge holds.
Forwarded(raw) ==
    LET b == onMessage(Bridge, raw, FALSE)
    IN  \E i \in 1..Len(b.fx) :
            /\ b.fx[i].k = "call"
            /\ b.fx[i].t = Method(parseClientMessage(raw).type)
            /\ b.fx[i].s = session

\* C25: the error callback emits exactly one live.error and leaves the
\* session handle and the sessions as they were; in the state it leaves, a
\* data message is forwarded to the session the bridge holds.
C25_ErrorKeepsSession ==
    last.op = "error" =>
        /\ Len(Emits(last.fx)) = 1
        /\ Emits(last.fx)[1].t = "live.error"
        /\ session = last.pre.session
        /\ live = last.pre.live
        /\ session # NoSession => \A raw \in DataPayloads : Forwarded(raw)

\* The session the bridge holds reported an error.
C25_Witness ==
    /\ last.op = "error"
    /\ session # NoSession
    /\ last.s = session
    /\ live[session] = "open"
    /\ socket = "open"
    /\ \A raw \in DataPayloads : Forwarded(raw)


\* ------------------------------------------------------------- one drain pass
\* A step in which enqueueChunk accepts a chunk while a drain pass holds the
\* running flag: the suspended pass, what is scheduled, the cursor and the
\* contexts stay as they were, and the queue grows by that chunk at its end.
OnlyAppends ==
    (player.processingRef /\ player'.enqueued = player.enqueued + 1)
        => /\ player'.passes = player.passes
           /\ player'.processingRef
           /\ player'.scheduled = player.scheduled
           /\ player'.nextPlayTimeRef = player.nextPlayTimeRef
           /\ player'.contextRef = player.contextRef
           /\ player'.contexts = player.contexts
           /\ Len(player'.queueRef) = Len(player.queueRef) + 1
           /\ SubSeq(player'.queueRef, 1, Len(player.queueRef)) = player.queueRef
           /\ player'.queueRef[Len(player'.queueRef)].id = player'.enqueued

\* C26: at most one drain pass is executing at any time, suspended passes
\* included, and it holds the running flag; an enqueueChunk that arrives
\* while a pass is running only appends to the queue and starts no second
\* pass.
C26_OneDrainPass ==
    /\ [](Len(player.passes) <= 1 /\ (player.passes # <<>> => player.processingRef))
    /\ [][OnlyAppends]_vars

\* The second chunk arrived while the pass that took the first was suspended
\* at an await: it waits in the queue.
C26_Witness ==
    /\ heard.op = "enqueueChunk"
    /\ Len(player.passes) = 1
    /\ player.passes[1].chunk.id = 1
    /\ player.processingRef
    /\ Len(player.queueRef) = 1
    /\ player.queueRef[1].id = 2


\* ------------------------------------------------------------- a failed chunk
\* The chunks accepted so far that are neither scheduled, nor queued, nor
\* held by a suspended pass.
Lost(p) == p.enqueued - Len(p.scheduled) - Len(p.queueRef) - Len(p.passes)

\* A step, other than a call of stop(), in which a chunk is lost: a drain
\* pass failed on it (base64 or audio decoding, or the context's resume).
ChunkFailed == Lost(player') > Lost(player) /\ heard'.op # "stop"

\* C27: when decoding or the context's resume fails for a chunk during a
\* drain pass, nothing stays queued or held for scheduling, the cursor is 0,
\* no output context is held and none is left open, and the running flag is
\* released; and an enqueueChunk that finds the flag released starts a drain
\* pass, which takes the chunk off the queue.
C27_FailureDiscardsQueue ==
    /\ [][ChunkFailed
            => /\ player'.queueRef = <<>>
               /\ player'.passes = <<>>
               /\ player'.nextPlayTimeRef = 0
               /\ player'.contextRef = NoContext
               /\ \A c \in ContextIds : player'.contexts[c].state \in {"none", "closed"}
               /\ ~player'.processingRef]_vars
    /\ [][(~player.processingRef /\ player'.enqueued = player.enqueued + 1)
            => \A i \in 1..Len(player'.queueRef) :
                    player'.queueRef[i].id # player'.enqueued]_vars

\* The resume awaited for the first chunk failed while the second chunk was
\* queued: neither was scheduled, and stop() ran once, in the catch block.
C27_Witness ==
    /\ heard.op = "resumed"
    /\ player.enqueued = 2
    /\ Lost(player) = 2
    /\ player.stops = 1
    /\ player.scheduled = <<>>
    /\ ~player.processingRef


\* ------------------------------------------------------------- user activity
\* The microphone is switched; both switches are enabled while connected.
MicToggle(enabled) ==
    /\ conn.connectionState = "connected"
    /\ observe.requests < MaxRequests
    /\ Hear("mic", onMicToggle([Client EXCEPT !.observe.requests = @ + 1], enabled),
            heard.interrupting, heard.late)

\* What the user typed when 'send text turn' is clicked.
Drafts == {<<"_", "a", "_", "b", "_">>, <<"c">>}

\* 'send text turn' is clicked; the button is enabled while connected with
\* a draft that is not blank.
SendText(draftText) ==
    /\ conn.connectionState = "connected"
    /\ trim(draftText) # <<>>
    /\ observe.requests < MaxRequests
    /\ Len(entries) < MaxEntries
    /\ Hear("sendText", onSendText([Client EXCEPT !.observe.requests = @ + 1], draftText),
            heard.interrupting, heard.late)

\* Stretches of time around the silence threshold.
Pauses == {userSilenceThresholdMs \div 2, userSilenceThresholdMs}

ActivityMessages ==
    {Message("session.connected", <<>>, "", "", FALSE),
     Message("session.closed", <<>>, "", "", FALSE),
     Message("live.waiting-input", <<>>, "", "", TRUE)}

\* The auto-observe effect of the App with the user at the controls.
ActivityNext ==
    \/ StartClick
    \/ SocketOpens
    \/ SocketCloses
    \/ \E m \in ActivityMessages : Delivered(m, "running")
    \/ CameraToggle(TRUE)
    \/ CameraStarted
    \/ \E frame \in ObserveFrames, dataUrl \in DataUrls : VideoTick(frame, TRUE, dataUrl)
    \/ ObserveTick
    \/ \E d \in Pauses : Elapse(d)
    \/ \E enabled \in BOOLEAN : MicToggle(enabled)
    \/ \E draftText \in Drafts : SendText(draftText)
    \/ ManualRequest
    \/ InterruptClick
    \/ TimeoutFires

ActivitySpec == PlaybackInit /\ [][ActivityNext]_vars

\* C28: each of the user's actions (microphone switch, text turn sent,
\* frame analysis asked for, interrupt) leaves the last-activity timestamp
\* at the time of the action, and a tick that sends an auto-observation turn
\* runs no less than the silence threshold after the latest such action.
C28_SilenceBeforeAutoTurn ==
    /\ heard.op \in UserOps => app.lastUserActivityAtRef = observe.actedAt
    /\ observe.tick.sent => observe.tick.now - observe.actedAt >= userSilenceThresholdMs

\* An auto-observation turn was sent exactly the silence threshold after the
\* user's latest action, later than the session was connected.
C28_Witness ==
    /\ observe.tick.sent
    /\ observe.actedAt > Epoch
    /\ observe.tick.now - observe.actedAt = userSilenceThresholdMs


\* ------------------------------------------------------------- the three timestamps
StampMessages ==
    {Message("session.connected", <<>>, "", "", FALSE),
     Message("session.closed", <<>>, "", "", FALSE),
     Message("live.waiting-input", <<>>, "", "", TRUE),
     TextMessage("user.transcript", <<"a">>, FALSE),
     TextMessage("user.transcript", <<"_">>, FALSE)}

\* The camera shows one scene, so that a run of the effect emits one frame.
StampFrames == {frame \in ObserveFrames : frame[1].red = 0}

\* Everything that writes one of the App's three timestamps.
StampNext ==
    \/ StartClick
    \/ SocketOpens
    \/ \E m \in StampMessages : Transcribed(m)
    \/ CameraToggle(TRUE)
    \/ CameraStarted
    \/ \E frame \in StampFrames, dataUrl \in DataUrls : VideoTick(frame, TRUE, dataUrl)
    \/ ObserveTick
    \/ Elapse(userSilenceThresholdMs)
    \/ MicToggle(TRUE)
    \/ SendText(<<"c">>)
    \/ ManualRequest
    \/ InterruptClick
    \/ StopClick

StampSpec == PlaybackInit /\ [][StampNext]_vars

\* The handlers of user activity: the four of UserOps, speech transcribed to
\* a text that is not blank, and the start of a session ('start live
\* session' and the session.connected that answers it).
ActivityOps == UserOps \cup {"user.transcript", "start", "session.connected"}

\* C29 as stated, with a timestamp stamped when it is set to a time (the
\* clearing of all three at the end of a session apart): the
\* last-auto-feedback timestamp is stamped only in a step that writes an
\* auto-observation turn to the socket, the last-frame-capture timestamp
\* only in a tick that emits a frame, and the last-user-activity timestamp
\* only in a handler of user activity.
C29_EachStampOnItsEvent ==
    [][/\ (/\ app'.lastVisionFeedbackRequestAtRef # app.lastVisionFeedbackRequestAtRef
           /\ app'.lastVisionFeedbackRequestAtRef # 0)
            => SentAuto(heard'.sent)
       /\ (/\ app'.lastFrameCaptureAtRef # app.lastFrameCaptureAtRef
           /\ app'.lastFrameCaptureAtRef # 0)
            => (heard'.op = "tick" /\ gate'.tick.onFrame)
       /\ (/\ app'.lastUserActivityAtRef # app.lastUserActivityAtRef
           /\ app'.lastUserActivityAtRef # 0)
            => heard'.op \in ActivityOps]_vars

\* The handlers that clear timestamps.
ClosingOps == {"session.closed", "stopSession"}

\* C29 (amended): the last-feedback-request timestamp is set to now only by
\* a feedback request, automatic or manual, whether or not its text turn is
\* written to the socket; the last-frame-capture timestamp only by a tick
\* that emits a frame; the last-user-activity timestamp only by a handler of
\* user activity; and apart from that the timestamps are only cleared: all
\* three by session.closed and 'stop session', the last-feedback-request
\* timestamp by session.connected as well.
C29_EachStampOnItsHandlers ==
    [][/\ app'.lastVisionFeedbackRequestAtRef # app.lastVisionFeedbackRequestAtRef
            => \/ /\ heard'.op \in {"manual", "observe"}
                  /\ app'.lastVisionFeedbackRequestAtRef = now
               \/ /\ heard'.op \in ClosingOps \cup {"session.connected"}
                  /\ app'.lastVisionFeedbackRequestAtRef = 0
       /\ app'.lastFrameCaptureAtRef # app.lastFrameCaptureAtRef
            => \/ /\ heard'.op = "tick"
                  /\ gate'.tick.onFrame
                  /\ app'.lastFrameCaptureAtRef = now
               \/ /\ heard'.op \in ClosingOps
                  /\ app'.lastFrameCaptureAtRef = 0
       /\ app'.lastUserActivityAtRef # app.lastUserActivityAtRef
            => \/ /\ heard'.op \in ActivityOps
                  /\ app'.lastUserActivityAtRef = now
               \/ /\ heard'.op \in ClosingOps
                  /\ app'.lastUserActivityAtRef = 0]_vars

\* A manual request set the last-feedback-request timestamp although its
\* text turn was not written to the socket, later than the last activity
\* before it and than the last frame.
C29_Witness ==
    /\ heard.op = "manual"
    /\ heard.sent = <<>>
    /\ app.lastVisionFeedbackRequestAtRef = now
    /\ app.lastUserActivityAtRef = now
    /\ app.lastFrameCaptureAtRef \notin {0, now}


\* ------------------------------------------------------------- the user partial
\* A user.transcript event arrives; its text and finished flag are noted.
Spoken(message) ==
    /\ conn.wsRef \in {"open", "closing"}
    /\ Len(entries) < MaxEntries
    /\ Hear("user.transcript",
            [wsOnmessage(Client, message, "running") EXCEPT
                !.said.text = message.text,
                !.said.role = IF message.finished THEN "finished" ELSE "partial"],
            heard.interrupting, heard.late)

PartialMessages ==
    {Message("session.connected", <<>>, "", "", FALSE),
     Message("session.closed", <<>>, "", "", FALSE),
     Message("live.interrupted", <<>>, "", "", FALSE),
     Message("agent.turn.complete", <<>>, "", "", FALSE),
     TextMessage("agent.text.delta", <<"c">>, FALSE)}

\* The transcript of the App on one websocket.
PartialNext ==
    \/ StartClick
    \/ SocketOpens
    \/ \E text \in Speech, finished \in BOOLEAN :
            Spoken(TextMessage("user.transcript", text, finished))
    \/ \E m \in PartialMessages : Transcribed(m)
    \/ StopClick

PartialSpec == PlaybackInit /\ [][PartialNext]_vars

\* The triggers, other than a finished user.transcript, that commit the
\* user partial.
FlushOps == {"agent.turn.complete", "live.interrupted", "session.closed", "stopSession"}

\* The log is the log es, followed or ended by the user entry of text, and
\* by whatever the handler appended after it.
CommittedAfter(es, text) ==
    /\ Len(entries) >= Len(es)
    /\ SubSeq(entries, 1, Len(es)) = es
    /\ \E n \in {Len(es), Len(es) + 1} :
            /\ n \in 1..Len(entries)
            /\ entries[n] = [role |-> "user", text |-> normalizeTranscriptText(text)]

UserEntries(es) == {i \in 1..Len(es) : es[i].role = "user"}

\* C30: a user.transcript event leaves its text as the user partial, unless
\* it is finished and not blank: then the text is in the log and the partial
\* is empty.  An agent turn completion, an interruption or a session close
\* that finds a partial that is not blank leaves it in the log and the
\* partial empty; one that finds the partial blank, as it is after a commit,
\* adds no user entry.
C30_PartialCommittedOnce ==
    /\ heard.op = "user.transcript"
        => IF said.role = "finished" /\ normalizeTranscriptText(said.text) # <<>>
           THEN app.userPartialRef = <<>> /\ CommittedAfter(said.previous, said.text)
           ELSE app.userPartialRef = said.text /\ entries = said.previous
    /\ (heard.op \in FlushOps /\ normalizeTranscriptText(said.partial) # <<>>)
        => app.userPartialRef = <<>> /\ CommittedAfter(said.previous, said.partial)
    /\ (heard.op \in FlushOps /\ normalizeTranscriptText(said.partial) = <<>>)
        => Cardinality(UserEntries(entries)) = Cardinality(UserEntries(said.previous))

\* An agent turn completion committed a partial that had replaced an
\* earlier one.
C30_Witness ==
    /\ heard.op = "agent.turn.complete"
    /\ said.partial = <<"a", "_", "b">>
    /\ app.userPartialRef = <<>>
    /\ Len(entries) > Len(said.previous)
    /\ entries[Len(said.previous) + 1] = [role |-> "user", text |-> <<"a", "_", "b">>]


\* ------------------------------------------------------------- the agent's text
\* The longest accumulated text followed.
MaxAcc == 3

\* The texts of agent.text.delta, letter by letter.
Deltas == {<<"a">>, <<"a", "b">>, <<"b">>, <<"_">>}

\* An agent.text.delta arrives.
Streamed(text) ==
    /\ Len(app.agentPartial) + Len(text) <= MaxAcc
    /\ Delivered(TextMessage("agent.text.delta", text, FALSE), "running")

\* The longest log followed while the agent speaks.
MaxLog == 3

AgentMessages ==
    {Message("live.interrupted", <<>>, "", "", FALSE),
     Message("agent.turn.complete", <<>>, "", "", FALSE),
     TextMessage("user.transcript", <<"c">>, FALSE)}

\* A message that may write to the log arrives while the log is short.
Turned(message) ==
    /\ Len(entries) < MaxLog
    /\ Delivered(message, "running")

\* The agent's turns as the App hears them on one websocket.
AgentNext ==
    \/ StartClick
    \/ SocketOpens
    \/ \E text \in Deltas : Streamed(text)
    \/ \E m \in AgentMessages : Turned(m)

AgentSpec == PlaybackInit /\ [][AgentNext]_vars

\* C31: after an agent.text.delta of text d the accumulated text is d when
\* it was empty before or d begins with it, and else what it was followed
\* by d.
C31_DeltaAccumulates ==
    heard.op = "agent.text.delta"
    => LET d == said.text
           before == said.acc
           supersedes == /\ Len(before) <= Len(d)
                         /\ \A i \in 1..Len(before) : d[i] = before[i]
       IN  /\ supersedes => app.agentPartial = d
           /\ ~supersedes => /\ Len(app.agentPartial) = Len(before) + Len(d)
                              /\ SubSeq(app.agentPartial, 1, Len(before)) = before
                              /\ \A j \in 1..Len(d) : app.agentPartial[Len(before) + j] = d[j]

\* A delta that begins with the accumulated text replaced it.
C31_Witness ==
    /\ heard.op = "agent.text.delta"
    /\ said.acc = <<"a">>
    /\ said.text = <<"a", "b">>
    /\ app.agentPartial = <<"a", "b">>


\* The entry a turn completion commits for the accumulated text.
Turn == [role |-> "agent", text |-> normalizeTranscriptText(said.acc)]

\* The entry committed for the pending user partial.
Pending == [role |-> "user", text |-> normalizeTranscriptText(said.partial)]

\* C32 as stated: agent.turn.complete leaves the accumulated text empty; if
\* it was not blank, the log has one agent entry more and ends with it, and
\* a pending user partial is the user entry right before it.
C32_TurnCommitsOneAgentEntry ==
    heard.op = "agent.turn.complete"
    => /\ app.agentPartial = <<>>
       /\ Turn.text # <<>>
            => /\ Len(AgentEntries(entries)) = Len(AgentEntries(said.previous)) + 1
               /\ entries[Len(entries)] = Turn
               /\ Pending.text # <<>>
                    => (Len(entries) >= 2 /\ entries[Len(entries) - 1] = Pending)
       /\ Turn.text = <<>> => AgentEntries(entries) = AgentEntries(said.previous)

\* The log once the pending user partial is committed: the log before, with
\* the user entry at its end.
UserCommitted ==
    IF Pending.text = <<>> THEN said.previous
    ELSE IF said.previous # <<>> /\ said.previous[Len(said.previous)] = Pending
    THEN said.previous
    ELSE Append(said.previous, Pending)

\* C32 (amended): agent.turn.complete leaves the accumulated text empty and
\* commits a pending user partial first; the accumulated text, if not blank,
\* is then added as one agent entry at the end of the log, after that user
\* entry, unless it equals an agent entry among the four most recent entries
\* of the log, in which case no agent entry is added.
C32_TurnCommitsUnlessRepeated ==
    heard.op = "agent.turn.complete"
    => /\ app.agentPartial = <<>>
       /\ app.userPartialRef = IF Pending.text = <<>> THEN said.partial ELSE <<>>
       /\ IF /\ Turn.text # <<>>
             /\ ~\E i \in Recent(UserCommitted, 4) : UserCommitted[i] = Turn
          THEN entries = Append(UserCommitted, Turn)
          ELSE entries = UserCommitted

\* A turn completion committed the user partial and then the agent's text.
C32_Witness ==
    /\ heard.op = "agent.turn.complete"
    /\ said.acc = <<"a", "b">>
    /\ said.partial = <<"c">>
    /\ entries = said.previous \o <<Pending, Turn>>


\* ------------------------------------------------------------- one session.closed
\* The session.closed messages the bridge emitted for session s.
ClosedFor(s) == {j \in 1..Len(log) : IsClosed(log[j]) /\ log[j].s = s}

\* C33: for each external session the bridge opens, at most one
\* session.closed is emitted, however the session ends.
C33_ClosedOncePerSession == \A s \in SessionIds : Cardinality(ClosedFor(s)) <= 1


\* ------------------------------------------------------------- the newest session
\* C34: the close callback of a session other than the one the handle
\* refers to leaves the handle as it is: a session that was replaced or
\* disconnected does not clear the handle to the open session that came
\* after it.
C34_HandleKeepsNewest ==
    (/\ last.op = "close"
     /\ last.pre.session \notin {NoSession, last.s}
     /\ last.pre.live[last.pre.session] = "open")
    => session = last.pre.session


\* ------------------------------------------------------------- the drain ends
\* A promise a drain pass awaits settles.
Settle ==
    \/ \E i \in 1..MaxChunks, ok \in BOOLEAN, state \in ContextStates : ContextResumed(i, ok, state)
    \/ \E i \in 1..MaxChunks, ok \in BOOLEAN, state \in ContextStates : AudioDecoded(i, ok, state)

\* The scheduler where every promise awaited settles in the end.
DrainSpec == PlaybackInit /\ [][PlaybackNext]_vars /\ WF_vars(Settle)

\* Chunk c waits in the queue or is held by a drain pass.
Held(c) ==
    \/ \E i \in 1..Len(player.queueRef) : player.queueRef[i].id = c
    \/ \E i \in 1..Len(player.passes) : player.passes[i].chunk.id = c

\* C35: when every awaited promise settles, each chunk enqueueChunk accepted
\* leaves the queue and the passes in the end, scheduled or discarded; and
\* whenever no drain pass is executing the running flag is false and the
\* queue is empty.
C35_EveryChunkDrained ==
    /\ [](player.passes = <<>> => (~player.processingRef /\ player.queueRef = <<>>))
    /\ \A c \in 1..MaxChunks : Held(c) ~> ~Held(c)

\* The second chunk waited in the queue behind a suspended pass and was
\* scheduled when the decoding of the first settled.
C35_Witness ==
    /\ heard.op = "decoded"
    /\ Len(player.scheduled) = 2
    /\ player.scheduled[2].id = 2
    /\ player.scheduled[2].at = player.scheduled[1].at
    /\ player.passes = <<>>
    /\ ~player.processingRef

\* ------------------------------------------------------------- what the client sends
\* The microphone stream hands a chunk to its onChunk callback; a chunk
\* that was being encoded may arrive after the stream was switched off.
MicChunk ==
    Hear("chunk", [Client EXCEPT !.conn = sendAudioChunk(@)], heard.interrupting, heard.late)

SendMessages ==
    {Message("session.connected", <<>>, "", "", FALSE),
     Message("session.closed", <<"Live session closed.">>, "", "", FALSE)}

SendNext ==
    \/ StartClick
    \/ SocketOpens
    \/ SocketCloses
    \/ StopClick
    \/ DetachedCloses
    \/ \E m \in SendMessages : Delivered(m, "running")
    \/ MicChunk
    \/ \E enabled \in BOOLEAN : MicToggle(enabled)
    \/ SendText(<<"c">>)
    \/ CameraToggle(TRUE)
    \/ CameraStarted
    \/ \E frame \in StampFrames, dataUrl \in DataUrls : VideoTick(frame, TRUE, dataUrl)
    \/ ManualRequest
    \/ InterruptClick
    \/ TimeoutFires

SendSpec == PlaybackInit /\ [][SendNext]_vars

\* The messages of the session window, by what the client puts on the wire.
WindowMessages ==
    {"text.turn", manualVisionPrompt, autoVisionPrompt, "audio.chunk", "audio.end",
     "video.frame", "activity.start", "activity.end"}

Sends(sent, types) == \E i \in 1..Len(sent) : sent[i] \in types

\* C38: text.turn, audio.chunk, audio.end, video.frame, activity.start and
\* activity.end are sent only while the active-session flag is true; outside
\* that window only session.connect and session.disconnect are sent; the
\* flag rises only when session.connected is received and is false after
\* session.closed, a socket close, startSession and stopSession.
C38_DataOnlyWhileActive ==
    /\ [][Sends(heard'.sent, WindowMessages) => conn.hasActiveSessionRef]_vars
    /\ [][~conn.hasActiveSessionRef =>
            \A i \in 1..Len(heard'.sent) :
                heard'.sent[i] \in {"session.connect", "session.disconnect"}]_vars
    /\ [][(~conn.hasActiveSessionRef /\ conn'.hasActiveSessionRef)
            => heard'.op = "session.connected"]_vars
    /\ [][heard'.op \in {"session.closed", "close", "start", "stopSession"}
            => ~conn'.hasActiveSessionRef]_vars

\* The timeout of an interruption fired after a restart over the open
\* socket had cleared the flag: activity.end was not sent.
C38_Witness ==
    /\ heard.op = "timeout"
    /\ heard.sent = <<>>
    /\ conn.wsRef = "open"
    /\ ~conn.hasActiveSessionRef

\* ------------------------------------------------------------- client and server
\* One client and the server on one websocket: what the client sends is
\* what the server receives, in order, and what the server writes while the
\* socket is open is what the client receives, in order.
LinkInit ==
    /\ ServerNew
    /\ ClientNew!2 /\ ClientNew!3 /\ ClientNew!4 /\ ClientNew!5 /\ ClientNew!6
    /\ ClientNew!7 /\ ClientNew!8 /\ ClientNew!9
    /\ conn = [ConnNew EXCEPT !.wired = TRUE]

\* Messages the client may still send.
Room == MaxMsgs - nmsg - Len(conn.up)

\* 'start live session' is clicked: the first click opens the websocket, a
\* later one finds it open.
Click ==
    /\ conn.wsRef = "open" \/ (conn.wsRef = "null" /\ nmsg = 0 /\ conn.up = <<>>)
    /\ Room > 0
    /\ Hear("start",
            [onStartSession(Client) EXCEPT !.conn.again =
                IF conn.wsRef = "open" /\ conn.connectionState = "connected"
                THEN "asked" ELSE @],
            heard.interrupting, heard.late)

\* socket.onmessage for the next message of the server; a socket the
\* client closed delivers nothing more.
Arrives ==
    /\ conn.wsRef = "open"
    /\ conn.down # <<>>
    /\ LET e == Head(conn.down)
           message == Message(e.t, IF e.a = "" THEN <<>> ELSE <<e.a>>, "", "", FALSE)
           k == wsOnmessage(Client, message, "running")
       IN  Hear(e.t,
                [k EXCEPT !.conn.down = Tail(@),
                          !.conn.again = IF e.t = "session.connected" /\ @ = "asked"
                                         THEN "connected" ELSE @],
                heard.interrupting /\ e.t \notin {"live.interrupted", "session.closed"},
                heard.late)

\* The websocket the client closed is closed.
Closes == conn.wsRef = "closing" /\ SocketCloses

\* 'interrupt now' is clicked.
Interrupts == Room > 1 /\ InterruptClick

\* socket.on('message') for the next message of the client; the call it
\* makes on the provider's session returns.
Takes ==
    /\ conn.up # <<>>
    /\ Receive(Plain(Head(conn.up)), FALSE)

Announced(s) ==
    \E i \in 1..Len(log) :
        log[i].k = "out" /\ log[i].t = "session.connected" /\ log[i].s = s

\* The provider's setupComplete, the first message of a session.
SetupComplete(s) ==
    /\ live[s] = "open"
    /\ ~Announced(s)
    /\ Do("servermessage", s,
          handleServerMessage(Logged(Bridge, Entry("cb", "message", s, "")),
              LiveServerMessage(TRUE, <<>>, "absent", FALSE, "absent", "absent",
                                FALSE, FALSE, "absent"), s),
          LiveServerMessage(TRUE, <<>>, "absent", FALSE, "absent", "absent",
                            FALSE, FALSE, "absent"))
    /\ UNCHANGED <<request, nmsg, nev>>

\* socket.on('close') once the client closed the websocket and everything
\* it sent was handled.
HangsUp ==
    /\ conn.wsRef \in {"closing", "null"}
    /\ nmsg > 0
    /\ conn.up = <<>>
    /\ SocketClose

LinkNext ==
    \/ Click
    \/ SocketOpens
    \/ Arrives
    \/ Closes
    \/ Interrupts
    \/ TimeoutFires
    \/ Takes
    \/ \E s \in SessionIds : ConnectResolve(s)
    \/ \E s \in SessionIds : ConnectReject(s)
    \/ \E s \in SessionIds : SetupComplete(s)
    \/ \E s \in SessionIds : UpstreamClose(s, "")
    \/ HangsUp

LinkSpec == LinkInit /\ [][LinkNext]_vars

\* Nothing is in flight and nothing is pending: every message sent was
\* handled, every message written to an open client was read, no socket
\* is opening or closing, no handshake and no close is outstanding, every
\* open session sent its setupComplete and no timeout is set.
Quiet ==
    /\ conn.up = <<>>
    /\ conn.down = <<>> \/ conn.wsRef # "open"
    /\ conn.wsRef \notin {"connecting", "closing"}
    /\ conn.wsRef = "null" /\ nmsg > 0 => socket = "closed"
    /\ Settled
    /\ \A s \in SessionIds : (live[s] = "open" /\ socket = "open") => Announced(s)
    /\ app.timeouts = 0

\* The session the latest session.connect asked for.
Newest == CHOOSE s \in SessionIds : live[s] # "none" /\ \A i \in SessionIds : live[i] # "none" => i <= s

\* C36: after 'start live session' on a connected client over its open
\* websocket, with the handshake of the new session resolved and the
\* session not closed by the provider, the run does not come to rest
\* before the client received the new session.connected and is connected.
C36_ReconnectConnects ==
    (/\ Quiet
     /\ conn.again # "no"
     /\ live[1] # "none"
     /\ live[Newest] \in {"open", "closing", "closed"}
     /\ [t |-> "close", s |-> Newest] \notin {conn.marks[i] : i \in 1..Len(conn.marks)})
    => (conn.again = "connected" /\ conn.connectionState = "connected")

\* C37: the run does not come to rest with the client in the state
\* connecting.
C37_NeverStuckConnecting == Quiet => conn.connectionState # "connecting"

\* The activity markers forwarded to session s, in order.
Markers(s) == SelectSeq(conn.marks, LAMBDA m : m.s = s /\ m.t # "close")

\* C39: when the run comes to rest, the last activity marker forwarded to
\* each session is an activity.end, so that every activity.start was
\* followed by one.
C39_MarkersBalanced ==
    Quiet => \A s \in SessionIds :
                Markers(s) = <<>> \/ Markers(s)[Len(Markers(s))].t = "activityEnd"

\* ------------------------------------------------------------- an interrupted turn
\* C40: the agent entry committed at the agent.turn.complete of a turn that
\* received deltas holds only the deltas received since the previous
\* agent.turn.complete or live.interrupted: text of an interrupted turn is
\* not merged into it.
C40_InterruptedTextNotMerged ==
    [][(/\ heard'.op = "agent.turn.complete"
        /\ said.fresh # <<>>
        /\ entries' # entries
        /\ entries'[Len(entries')].role = "agent")
       => entries'[Len(entries')].text = normalizeTranscriptText(said.fresh)]_vars

====
